---- MODULE Spec2Model ----
(***************************************************************************)
(* reeve_bot: the pulse store (reeve/pulse/queue.py), the scheduler and    *)
(* execution tasks of the daemon (reeve/pulse/daemon.py) and the clients   *)
(* that write to the store.                                                *)
(*                                                                         *)
(* Granularity.  The program is cooperative async code: a coroutine runs   *)
(* without interruption from one await to the next.  A store call that     *)
(* guards on what it read (mark_processing, cancel_pulse,                  *)
(* reschedule_pulse) is two steps, the read at `await session.get` and the *)
(* write at `await session.commit`; the ORM writes back only the columns   *)
(* the call assigned and whose value differs from the row it loaded.  The  *)
(* effect of a database call is applied at its await; the caller resumes   *)
(* in a later step.  The clock `now` counts minutes.                       *)
(***************************************************************************)
EXTENDS Integers, Sequences, FiniteSets, TLC

\* ------------------------------------------------------------------ bounds
MaxPulses == 2          \* rows the store may hold while the daemon runs
MaxRows == 3            \* rows the store may hold under direct callers
MaxTime == 1            \* last clock value (minutes)
MaxRetries == 1         \* largest max_retries passed to schedule_pulse
MaxConcurrent == 2      \* largest PULSE_MAX_CONCURRENT tried
BatchPulses == 11       \* rows of the loaded store of SpecBatch
RetryBudget == 2        \* largest max_retries of SpecRetry
RetryHorizon == 3       \* last clock value of SpecRetry (minutes)
MaxAlertCalls == 2      \* send_alert calls in a run of SpecSentinel
AlertHorizon == 2       \* last clock value of SpecSentinel (seconds)
MaxLines == 3           \* lines given to one HapiStreamParser
MaxCooldown == 2        \* largest cooldown_seconds passed to send_alert
MaxUpdates == 2         \* update ids the upstream of SpecBridge hands out
MaxBatch == 2           \* updates in one getUpdates answer

\* ------------------------------------------------------- program constants
FetchCap == 10          \* min(10, available_slots)
None == -1              \* a NULL integer column / a None return value
NoError == "none"       \* error_message IS NULL
NoSession == "none"     \* session_id IS NULL
NoList == <<>>          \* a JSON column that IS NULL

PulsePriority == {"critical", "high", "normal", "low", "deferred"}
PulseStatus == {"pending", "processing", "completed", "failed", "cancelled"}

Min(a, b) == IF a < b THEN a ELSE b

RECURSIVE Pow2(_)
Pow2(n) == IF n <= 0 THEN 1 ELSE 2 * Pow2(n - 1)

\* ------------------------------------------------------------------- state
VARIABLES
    pulses,             \* the pulses table: row i has id i
    parent,             \* history: parent[i] = the pulse whose failure created i
    now,                \* datetime.now(timezone.utc), in minutes
    call,               \* direct callers of PulseQueue: the call in progress
    claims,             \* history: claims[i] = times mark_processing(i) returned True
    running,            \* PulseDaemon.running
    max_concurrent,     \* PulseDaemon.max_concurrent
    schedPc,            \* where _scheduler_loop is suspended
    batch,              \* the rest of `pulses` in `for pulse in pulses`
    mpLoaded,           \* the row mark_processing loaded for the scheduler
    executing_pulses,   \* PulseDaemon.executing_pulses (by pulse id)
    task,               \* task[i] = where the task pulse-<i> is suspended
    spawned,            \* history: spawned[i] = execution tasks created for i
    alerts,             \* history: cooldown keys Sentinel was invoked with
    shutdownPc,         \* where _handle_shutdown is suspended
    shutdown2Pc,        \* the same for the task a second signal creates
    executor,           \* one PulseExecutor.execute call and what it met
    sentinel,           \* the cooldown files of SentinelService and its calls
    listener,           \* TelegramListener, its offset file and its process
    api                 \* one request to the HTTP API and what it led to

storeVars == <<pulses, parent, now>>
callVars == <<call, claims>>
daemonVars == <<running, max_concurrent, schedPc, batch, mpLoaded,
                executing_pulses, task, spawned, alerts, shutdownPc,
                shutdown2Pc>>
peerVars == <<executor, sentinel, listener, api>>
vars == <<pulses, parent, now, call, claims, running, max_concurrent, schedPc,
          batch, mpLoaded, executing_pulses, task, spawned, alerts, shutdownPc,
          shutdown2Pc, executor, sentinel, listener, api>>

\* ids that may be in use in any run
AllIds == 1..(MaxPulses + MaxRows + BatchPulses)
Callers == {"c1", "c2"}

\* ------------------------------------------------------------ the store
\* the components a run does not exercise: no execute call, no Sentinel
\* call, no listener process, no request to the API
NoExecution == [pc |-> "none"]
NoSentinel == [pc |-> "none"]
NoListener == [pc |-> "none"]
NoRequest == [pc |-> "none"]

PeersIdle ==
    /\ executor = NoExecution
    /\ sentinel = NoSentinel
    /\ listener = NoListener
    /\ api = NoRequest

\* Pulse(...) with status=PENDING; the other columns take the defaults of
\* models.py
Pulse(scheduled_at, prompt, priority, session_id, sticky_notes, tags, created_by, max_retries, retry_count) ==
    [scheduled_at |-> scheduled_at, prompt |-> prompt, priority |-> priority,
     session_id |-> session_id, sticky_notes |-> sticky_notes, tags |-> tags,
     created_by |-> created_by,
     status |-> "pending", retry_count |-> retry_count,
     max_retries |-> max_retries, executed_at |-> None,
     execution_duration_ms |-> None, error_message |-> NoError]

\* the Pulse of a call that passes the time, the priority and the retry
\* budget and leaves the keyword defaults of schedule_pulse
NewPulse(scheduled_at, priority, max_retries, retry_count) ==
    Pulse(scheduled_at, "prompt", priority, NoSession, NoList, NoList,
          "system", max_retries, retry_count)

\* schedule_pulse with every argument given
\* session.add(pulse); commit: the row gets the next id
schedule_pulse_with(ps, scheduled_at, prompt, priority, session_id, sticky_notes, tags, created_by, max_retries) ==
    Append(ps, Pulse(scheduled_at, prompt, priority, session_id, sticky_notes,
                     tags, created_by, max_retries, 0))

\* schedule_pulse(scheduled_at, prompt, priority, max_retries=...)
schedule_pulse(ps, scheduled_at, priority, max_retries) ==
    Append(ps, NewPulse(scheduled_at, priority, max_retries, 0))

\* variant: ORDER BY the priority column itself, whose values are the
\* enum's strings
priority_order_by_value(p) ==
    CASE p = "critical" -> 1
      [] p = "deferred" -> 2
      [] p = "high" -> 3
      [] p = "low" -> 4
      [] p = "normal" -> 5
      [] OTHER -> 6

\* the CASE expression get_due_pulses orders by (lower number first)
priority_order(p) ==
    CASE p = "critical" -> 1
      [] p = "high" -> 2
      [] p = "normal" -> 3
      [] p = "low" -> 4
      [] p = "deferred" -> 5
      [] OTHER -> 6

\* variant: WHERE scheduled_at < now
DueIds_strict(ps, t) ==
    {i \in DOMAIN ps : ps[i].scheduled_at < t /\ ps[i].status = "pending"}

\* WHERE scheduled_at <= now AND status = PENDING
DueIds(ps, t) ==
    {i \in DOMAIN ps : ps[i].scheduled_at <= t /\ ps[i].status = "pending"}

\* a sorts strictly before b under ORDER BY priority_order, scheduled_at
Before(ps, a, b) ==
    \/ priority_order(ps[a].priority) < priority_order(ps[b].priority)
    \/ /\ priority_order(ps[a].priority) = priority_order(ps[b].priority)
       /\ ps[a].scheduled_at < ps[b].scheduled_at

\* every order the database may return the rows S in: ORDER BY leaves the
\* order of rows that tie on both keys open
RECURSIVE OrderBy(_, _)
OrderBy(ps, S) ==
    IF S = {} THEN {<<>>}
    ELSE UNION {{<<m>> \o t : t \in OrderBy(ps, S \ {m})} :
                m \in {x \in S : \A y \in S : ~Before(ps, y, x)}}

\* .limit(limit)
Limit(s, limit) == SubSeq(s, 1, Min(limit, Len(s)))

\* the lists get_due_pulses(limit) may return at time t
get_due_pulses(ps, t, limit) ==
    {Limit(s, limit) : s \in OrderBy(ps, DueIds(ps, t))}

\* ---------------------------------------------------- typed transitions
\* what session.get returns for an id that has no row
NoRow ==
    [scheduled_at |-> None, prompt |-> "", priority |-> "normal",
     session_id |-> NoSession, sticky_notes |-> NoList, tags |-> NoList,
     created_by |-> "", status |-> "missing",
     retry_count |-> 0, max_retries |-> 0, executed_at |-> None,
     execution_duration_ms |-> None, error_message |-> NoError]

\* await session.get(Pulse, pulse_id)
session_get(ps, id) == IF id \in DOMAIN ps THEN ps[id] ELSE NoRow

\* await session.commit() of a loaded row: the UPDATE sets the columns that
\* were assigned a value different from the loaded one, and no other column
Flush(ps, id, row, assigned) ==
    [ps EXCEPT ![id] =
        [f \in DOMAIN row |->
            IF f \in DOMAIN assigned /\ assigned[f] # row[f]
            THEN assigned[f] ELSE ps[id][f]]]

\* `if not pulse or pulse.status != PulseStatus.PENDING: return False`
mark_processing_guard(row) == row # NoRow /\ row.status = "pending"
cancel_pulse_guard(row) == row # NoRow /\ row.status = "pending"
reschedule_pulse_guard(row) == row # NoRow /\ row.status = "pending"

\* variant: the status is assigned and never committed
mark_processing_uncommitted(ps, id, row) == ps

mark_processing(ps, id, row) == Flush(ps, id, row, [status |-> "processing"])

cancel_pulse(ps, id, row) == Flush(ps, id, row, [status |-> "cancelled"])

reschedule_pulse(ps, id, row, new_scheduled_at) ==
    Flush(ps, id, row, [scheduled_at |-> new_scheduled_at])

\* variant: the duration is not stored
mark_completed_without_duration(ps, id, row, t, execution_duration_ms) ==
    Flush(ps, id, row, [status |-> "completed", executed_at |-> t])

\* mark_completed has no status guard: `if pulse:` only
mark_completed(ps, id, row, t, execution_duration_ms) ==
    Flush(ps, id, row, [status |-> "completed", executed_at |-> t,
                        execution_duration_ms |-> execution_duration_ms])

\* variant: retry_count <= max_retries
will_retry_inclusive(row, should_retry) ==
    should_retry /\ row.retry_count <= row.max_retries

\* `should_retry and pulse.retry_count < pulse.max_retries`
will_retry(row, should_retry) ==
    should_retry /\ row.retry_count < row.max_retries

\* variant: every retry waits one minute
retry_delay_minutes_fixed(retry_count) == Pow2(0)

\* retry_delay_minutes = 2**pulse.retry_count
retry_delay_minutes(retry_count) == Pow2(retry_count)

\* variant: the retry row is built like a fresh schedule_pulse call
retry_pulse_defaults(row, t) ==
    NewPulse(t + retry_delay_minutes(row.retry_count), row.priority, row.max_retries,
             row.retry_count + 1)

\* the retry row: scheduled 2^retry_count minutes from now, the payload
\* copied from the failed row, created_by = f"retry_{pulse.created_by}"
retry_pulse(row, t) ==
    Pulse(t + retry_delay_minutes(row.retry_count), row.prompt, row.priority, row.session_id,
          row.sticky_notes, row.tags, "retry_" \o row.created_by,
          row.max_retries, row.retry_count + 1)

\* mark_failed has no status guard either: `if not pulse: return None`
mark_failed(ps, id, row, t, error_message, should_retry) ==
    LET failed == Flush(ps, id, row, [status |-> "failed",
                                      error_message |-> error_message,
                                      executed_at |-> t])
    IN  IF will_retry(row, should_retry)
        THEN Append(failed, retry_pulse(row, t))
        ELSE failed

\* the value mark_failed returns: retry_pulse.id, or None
mark_failed_result(ps, row, should_retry) ==
    IF will_retry(row, should_retry) THEN Len(ps) + 1 ELSE None

\* rows the store may hold in this run: schedPc is "none" in the runs
\* without a daemon
Capacity == IF schedPc = "none" THEN MaxRows ELSE MaxPulses

\* ids a caller may pass: one of them has no row
Ids == 1..Capacity

\* room for the row a call may insert
HasRoom(ps, row, should_retry) ==
    will_retry(row, should_retry) => Len(ps) < Capacity

\* parent[] after mark_failed(id)
ParentAfterFail(id, row, should_retry) ==
    IF will_retry(row, should_retry) THEN Append(parent, id) ELSE parent

\* ------------------------------------------------------- PulseExecutor
\* executor.pc: "call" at the entry of execute, "communicate" at the await
\* of wait_for(process.communicate()), "wait" at the await of process.wait()
\* after kill(), "exited" once the child is reaped, "returned" / "raised"
\* when execute has ended
\* what the child wrote on stdout: whether it is one JSON document, the
\* session_id in it, and the is_error flag of its result
Stdouts ==
    [json : BOOLEAN, session_id : {NoSession, "s1"}, is_error : BOOLEAN]

NoStdout == [json |-> FALSE, session_id |-> NoSession, is_error |-> FALSE]

\* an execute call that has not started, in an environment where the
\* working directory and the hapi command exist or not
Execution(cwd_exists, found) ==
    [pc |-> "call", cwd_exists |-> cwd_exists, found |-> found,
     child |-> "none", returncode |-> None, stdout |-> NoStdout,
     timed_out |-> FALSE, session_id |-> NoSession, error |-> NoError]

\* `if not cwd.exists(): raise RuntimeError`; create_subprocess_exec raises
\* FileNotFoundError, which is re-raised as RuntimeError
ExecSpawn ==
    /\ executor.pc = "call"
    /\ executor' =
          IF ~executor.cwd_exists
          THEN [executor EXCEPT !.pc = "raised", !.error = "no working dir"]
          ELSE IF ~executor.found
          THEN [executor EXCEPT !.pc = "raised", !.error = "not found"]
          ELSE [executor EXCEPT !.pc = "communicate", !.child = "running"]
    /\ UNCHANGED <<storeVars, callVars, daemonVars, sentinel, listener, api>>

\* the child exits within the timeout: communicate() returns its output
ExecExits ==
    /\ executor.pc = "communicate"
    /\ \E rc \in 0..1, out \in Stdouts :
          executor' = [executor EXCEPT !.pc = "exited", !.child = "reaped",
                                       !.returncode = rc, !.stdout = out]
    /\ UNCHANGED <<storeVars, callVars, daemonVars, sentinel, listener, api>>

\* asyncio.TimeoutError: process.kill(), then `await process.wait()`
ExecTimeout ==
    /\ executor.pc = "communicate"
    /\ executor' = [executor EXCEPT !.pc = "wait", !.child = "killed"]
    /\ UNCHANGED <<storeVars, callVars, daemonVars, sentinel, listener, api>>

\* process.wait() returns: timed_out = True, stdout = b""
ExecReaped ==
    /\ executor.pc = "wait"
    /\ executor' = [executor EXCEPT !.pc = "exited", !.child = "reaped",
                                    !.timed_out = TRUE,
                                    !.returncode = 0 - 9]
    /\ UNCHANGED <<storeVars, callVars, daemonVars, sentinel, listener, api>>

\* variant: the exit status of the killed child
return_code_of_child(e) == e.returncode

\* return_code = process.returncode if not timed_out else -1
return_code(e) == IF e.timed_out THEN 0 - 1 ELSE e.returncode

\* json.loads(stdout_str).get("session_id") when not timed out and the exit
\* code is 0; a document that does not parse leaves None
extracted_session_id(e) ==
    IF ~e.timed_out /\ return_code(e) = 0 /\ e.stdout.json
    THEN e.stdout.session_id ELSE NoSession

\* `if timed_out: raise RuntimeError`, `if process.returncode != 0: raise
\* RuntimeError`; nothing else is looked at
execute_failure(e) ==
    IF e.timed_out THEN "timed out"
    ELSE IF e.returncode # 0 THEN "exit code"
    ELSE NoError

\* the end of execute: the ExecutionResult is returned or RuntimeError raised
ExecEnds ==
    /\ executor.pc = "exited"
    /\ executor' =
          [executor EXCEPT
              !.pc = IF execute_failure(executor) = NoError
                     THEN "returned" ELSE "raised",
              !.error = execute_failure(executor),
              !.session_id = extracted_session_id(executor)]
    /\ UNCHANGED <<storeVars, callVars, daemonVars, sentinel, listener, api>>

\* --------------------------------------------------- HapiStreamParser
\* a line of the child's stdout, by what parse_line looks at: blank, without
\* "{", not JSON from the first "{" on, or a JSON object with its "type",
\* "subtype", "session_id", "is_error", "errors" and the number of tool_use
\* and tool_result items of message.content
HapiEventType == {"system", "assistant", "user", "result"}
Sessions == {NoSession, "s1", "s2"}

Line(type, subtype, session_id) ==
    [form |-> "json", type |-> type, subtype |-> subtype,
     session_id |-> session_id, is_error |-> FALSE, errors |-> <<>>,
     tool_use |-> 0, tool_result |-> 0]

StreamLines ==
    {[Line("missing", "none", NoSession) EXCEPT !.form = f] :
        f \in {"blank", "text", "bad json"}}
    \cup {Line("system", st, s) : st \in {"init", "none"}, s \in Sessions}
    \cup {[Line("assistant", "none", NoSession) EXCEPT !.tool_use = n] : n \in 0..2}
    \cup {[Line("user", "none", NoSession) EXCEPT !.tool_result = 1]}
    \cup {Line("result", "success", s) : s \in Sessions}
    \cup {[Line("result", "error", s) EXCEPT !.is_error = TRUE, !.errors = e] :
            s \in Sessions, e \in {<<>>, <<"Error: boom", "Error: later">>}}
    \cup {Line("unknown", "none", "s1"), Line("missing", "none", "s1")}

\* HapiStreamParser() and reset()
reset ==
    [events |-> <<>>, session_id |-> NoSession, is_error |-> FALSE,
     error_message |-> NoError, tool_call_count |-> 0]

\* the HapiStreamEvent parse_line builds of a JSON object of a known type
HapiStreamEvent(line) ==
    [type |-> line.type, subtype |-> line.subtype,
     session_id |-> line.session_id,
     is_error |-> line.type = "result" /\ line.is_error,
     error_message |->
        IF line.type = "result" /\ line.is_error /\ line.errors # <<>>
        THEN line.errors[1] ELSE NoError,
     tool_uses |-> IF line.type = "assistant" THEN line.tool_use ELSE 0,
     tool_results |-> IF line.type = "user" THEN line.tool_result ELSE 0]

\* self._session_id after parse_line: a system/init event with a
\* session_id sets it; a result event with one sets it when none is set
session_id_after(parser, event) ==
    LET init == IF /\ event.type = "system" /\ event.subtype = "init"
                   /\ event.session_id # NoSession
                THEN event.session_id ELSE parser.session_id
    IN  IF event.type = "result" /\ event.session_id # NoSession /\ init = NoSession
        THEN event.session_id
        ELSE init

\* parse_line: the parser after the line; a line that is no event of a
\* known type returns None and leaves the parser as it was
parse_line(parser, line) ==
    IF line.form # "json" \/ line.type \notin HapiEventType THEN parser
    ELSE LET event == HapiStreamEvent(line)
         IN  [events |-> Append(parser.events, event),
              session_id |-> session_id_after(parser, event),
              is_error |-> parser.is_error \/ event.is_error,
              error_message |->
                 IF event.error_message # NoError THEN event.error_message
                 ELSE parser.error_message,
              tool_call_count |-> parser.tool_call_count + event.tool_uses]

\* a parser and the lines it was given since its last reset
Parsing(parser, lines) == [pc |-> "parsing", parser |-> parser, lines |-> lines]

StreamFrame == UNCHANGED <<storeVars, callVars, daemonVars, sentinel, listener, api>>

\* parser.parse_line(line)
StreamParseLine ==
    /\ executor.pc = "parsing"
    /\ Len(executor.lines) < MaxLines
    /\ \E line \in StreamLines :
          executor' = Parsing(parse_line(executor.parser, line),
                              Append(executor.lines, line))
    /\ StreamFrame

\* parser.reset(), as parse_all does before its first line
StreamReset ==
    /\ executor.pc = "parsing"
    /\ executor.lines # <<>>
    /\ executor' = Parsing(reset, <<>>)
    /\ StreamFrame

\* ------------------------------------------------------------- Sentinel
\* sentinel.files[name]: the mtime of <state_dir>/.cooldown_<name>, None
\* when there is no such file; sentinel.proc[p]: the send_alert call process
\* p is in, "send" inside backend.send, "touch" before _touch_cooldown;
\* sentinel.history: the calls that have returned; sentinel.steps counts the
\* steps of all calls, to order them
\* a cooldown key is a string, here the sequence of its characters; the
\* empty one stands for None and "", which `if cooldown_key` treats alike
SafeChars == {"a", "1", "_", "-"}
CooldownKeys == {<<>>, <<"a", "/", "1">>, <<"a", "_", "1">>, <<"a", "-", "1">>}

\* variant: the dash is replaced too
safe_key_no_dash(key) == [k \in DOMAIN key |-> IF key[k] \in SafeChars \ {"-"} THEN key[k] ELSE "_"]

\* re.sub(r"[^a-zA-Z0-9_-]", "_", key)
safe_key(key) == [k \in DOMAIN key |-> IF key[k] \in SafeChars THEN key[k] ELSE "_"]

CooldownNames == {safe_key(key) : key \in CooldownKeys \ {<<>>}}

\* the processes that may call send_alert: the daemon's and a CLI run
AlertProcs == {"daemon", "cli"}

AlertIdle ==
    [pc |-> "idle", key |-> <<>>, cooldown_seconds |-> 0, checked_at |-> None,
     check_no |-> 0, configured |-> FALSE, readable |-> FALSE, seen |-> None,
     backend |-> "not called", touch |-> "not called", delivered |-> FALSE]

\* no cooldown file, nobody inside send_alert
SentinelUp ==
    [pc |-> "up", files |-> [n \in CooldownNames |-> None],
     proc |-> [p \in AlertProcs |-> AlertIdle], history |-> <<>>, steps |-> 0]

\* variant: age > cooldown_seconds
cooldown_expired_strict(mtime, readable, t, cooldown_seconds) ==
    IF ~readable \/ mtime = None THEN TRUE ELSE t - mtime > cooldown_seconds

\* _cooldown_expired: no file, or age >= cooldown_seconds; an OSError of
\* exists() or stat() allows the alert
cooldown_expired(mtime, readable, t, cooldown_seconds) ==
    IF ~readable \/ mtime = None THEN TRUE ELSE t - mtime >= cooldown_seconds

\* variant: send_alert without its try/except
send_alert_uncaught(exception, value) ==
    [raised |-> exception, result |-> value]

\* send_alert's `except Exception`: whatever was raised inside is logged and
\* the call returns False
send_alert_outcome(exception, value) ==
    [raised |-> FALSE, result |-> IF exception THEN FALSE ELSE value]

\* the record of a call that has ended, by a return or by an exception
Returned(c, invoked, recorded_at, touch_no, result) ==
    LET outcome == send_alert_outcome(c.backend = "raised", result)
    IN  [key |-> c.key, cooldown_seconds |-> c.cooldown_seconds,
         checked_at |-> c.checked_at, check_no |-> c.check_no,
         configured |-> c.configured, readable |-> c.readable, seen |-> c.seen,
         backend |-> c.backend, touch |-> c.touch,
         invoked |-> invoked, delivered |-> c.delivered,
         recorded_at |-> recorded_at, touch_no |-> touch_no,
         returned_at |-> now, return_no |-> sentinel.steps + 1,
         raised |-> outcome.raised, result |-> outcome.result]

SentinelFrame == UNCHANGED <<storeVars, callVars, daemonVars, executor, listener, api>>

\* send_alert up to backend.send: get_backend() finds no backend and the
\* call returns False, or the cooldown check suppresses it and alert returns
\* False, or the backend is called
AlertCall(p) ==
    /\ sentinel.pc = "up" /\ sentinel.proc[p].pc = "idle"
    /\ Len(sentinel.history)
         + Cardinality({q \in AlertProcs : sentinel.proc[q].pc # "idle"})
       < MaxAlertCalls
    /\ \E key \in CooldownKeys, cooldown_seconds \in 1..MaxCooldown,
          configured \in BOOLEAN, readable \in BOOLEAN :
          LET mtime == IF key = <<>> THEN None
                       ELSE sentinel.files[safe_key(key)]
              c == [AlertIdle EXCEPT
                       !.key = key, !.cooldown_seconds = cooldown_seconds,
                       !.checked_at = now, !.check_no = sentinel.steps + 1,
                       !.configured = configured,
                       !.readable = configured /\ readable /\ key # <<>>,
                       !.seen = IF configured /\ readable THEN mtime ELSE None]
          IN  IF ~configured
              THEN sentinel' =
                      [sentinel EXCEPT
                          !.steps = @ + 1,
                          !.history = Append(@, Returned(c, FALSE, None, 0, FALSE))]
              ELSE IF key # <<>>
                      /\ ~cooldown_expired(mtime, readable, now, cooldown_seconds)
              THEN sentinel' =
                      [sentinel EXCEPT
                          !.steps = @ + 1,
                          !.history = Append(@, Returned(c, FALSE, None, 0, FALSE))]
              ELSE sentinel' =
                      [sentinel EXCEPT
                          !.steps = @ + 1,
                          !.proc[p] = [c EXCEPT !.pc = "send"]]
    /\ SentinelFrame

\* backend.send(message) returns True or False, or raises, which send_alert
\* catches and turns into False; `if success and cooldown_key:` leads to
\* _touch_cooldown
AlertSend(p) ==
    /\ sentinel.proc[p].pc = "send"
    /\ \E outcome \in {"sent", "not sent", "raised"} :
          LET c == sentinel.proc[p]
          IN  IF outcome = "sent" /\ c.key # <<>>
              THEN sentinel' =
                      [sentinel EXCEPT
                          !.steps = @ + 1,
                          !.proc[p] = [c EXCEPT !.pc = "touch",
                                                !.backend = outcome,
                                                !.delivered = TRUE]]
              ELSE sentinel' =
                      [sentinel EXCEPT
                          !.steps = @ + 1,
                          !.proc[p] = AlertIdle,
                          !.history =
                             Append(@, Returned([c EXCEPT !.backend = outcome,
                                                          !.delivered =
                                                             (outcome = "sent")],
                                                TRUE, None, 0,
                                                outcome = "sent"))]
    /\ SentinelFrame

\* _touch_cooldown: mkdir and path.touch(), or an OSError that is logged;
\* alert returns True either way
AlertTouch(p) ==
    /\ sentinel.proc[p].pc = "touch"
    /\ \E writable \in BOOLEAN :
          LET c == sentinel.proc[p]
              name == safe_key(c.key)
          IN  sentinel' =
                 [sentinel EXCEPT
                     !.steps = @ + 1,
                     !.files[name] = IF writable THEN now ELSE @,
                     !.proc[p] = AlertIdle,
                     !.history =
                        Append(@, Returned([c EXCEPT !.touch =
                                                      IF writable THEN "written"
                                                      ELSE "OSError"],
                                           TRUE,
                                           IF writable THEN now ELSE None,
                                           sentinel.steps + 1, TRUE))]
    /\ SentinelFrame

\* time.time() advances
AlertTick ==
    /\ now < AlertHorizon
    /\ now' = now + 1
    /\ UNCHANGED <<peerVars, pulses, parent, callVars, daemonVars>>

\* ------------------------------------------ TelegramListener: offset file
\* the files of reeve_home the listener touches; a file is missing or has a
\* content, a sequence of characters
offset_file == "telegram_offset.txt"

\* variant: the offset is written in place
temp_file_in_place == offset_file

\* self.offset_file.with_suffix(".tmp")
temp_file == "telegram_offset.tmp"

OffsetFiles == {"telegram_offset.txt", "telegram_offset.tmp"}
NoFile == [exists |-> FALSE, content |-> <<>>]
File(content) == [exists |-> TRUE, content |-> content]
NoFiles == [f \in OffsetFiles |-> NoFile]

DigitChars == <<"0", "1", "2", "3", "4", "5", "6", "7", "8", "9">>
Whitespace == {" ", "\n"}

\* str(offset) of a non-negative int
RECURSIVE str(_)
str(n) ==
    IF n < 10 THEN <<DigitChars[n + 1]>>
    ELSE str(n \div 10) \o <<DigitChars[(n % 10) + 1]>>

\* f"{offset}\n"
offset_text(offset) == str(offset) \o <<"\n">>

\* str.strip()
RECURSIVE strip(_)
strip(s) ==
    IF s = <<>> THEN s
    ELSE IF Head(s) \in Whitespace THEN strip(Tail(s))
    ELSE IF s[Len(s)] \in Whitespace THEN strip(SubSeq(s, 1, Len(s) - 1))
    ELSE s

IsDigits(s) == s # <<>> /\ \A k \in DOMAIN s : \E d \in DOMAIN DigitChars : DigitChars[d] = s[k]
DigitValue(c) == (CHOOSE d \in DOMAIN DigitChars : DigitChars[d] = c) - 1

\* int(content) of a string of digits
RECURSIVE int(_)
int(s) ==
    IF Len(s) = 1 THEN DigitValue(s[1])
    ELSE 10 * int(SubSeq(s, 1, Len(s) - 1)) + DigitValue(s[Len(s)])

\* _load_offset: None when the file is missing, empty or not an integer
load_offset(fs) ==
    IF ~fs[offset_file].exists THEN None
    ELSE LET content == strip(fs[offset_file].content)
         IN  IF content = <<>> THEN None
             ELSE IF IsDigits(content) THEN int(content) ELSE None

\* Path.write_text and Path.replace
write_text(fs, f, content) == [fs EXCEPT ![f] = File(content)]
rename(fs, src, dst) == IF src = dst THEN fs ELSE [fs EXCEPT ![dst] = fs[src], ![src] = NoFile]

\* _save_offset run to its end: write the temp file, rename it over the
\* offset file
save_offset(fs, offset) ==
    rename(write_text(fs, temp_file, offset_text(offset)), temp_file, offset_file)

\* the offsets saved in SpecOffset: one, two and three digits
OffsetValues == {7, 12, 120}

\* a listener process around its offset file: pc is the position inside
\* _save_offset, previous the offset on disk when the save began, after
\* what the process did last, loaded the result of the last _load_offset
OffsetIdle(fs) ==
    [pc |-> "idle", fs |-> fs, offset |-> None, previous |-> None,
     after |-> "start", has_loaded |-> FALSE, loaded |-> None]

OffsetFrame == UNCHANGED <<storeVars, callVars, daemonVars, executor, sentinel, api>>

\* _save_offset(offset) begins: write_text has created or truncated the temp
\* file and written the first k characters
OffsetSave ==
    /\ listener.pc = "idle"
    /\ \E offset \in OffsetValues :
         \E k \in 0..(Len(offset_text(offset)) - 1) :
            listener' =
               [listener EXCEPT
                   !.pc = "open", !.offset = offset,
                   !.previous = load_offset(listener.fs),
                   !.after = "saving", !.has_loaded = FALSE, !.loaded = None,
                   !.fs = write_text(@, temp_file,
                                     SubSeq(offset_text(offset), 1, k))]
    /\ OffsetFrame

\* write_text has written the whole text
OffsetWritten ==
    /\ listener.pc = "open"
    /\ listener' =
          [listener EXCEPT
              !.pc = "written",
              !.fs = write_text(@, temp_file, offset_text(listener.offset))]
    /\ OffsetFrame

\* temp_file.replace(self.offset_file), and _save_offset returns
OffsetRename ==
    /\ listener.pc = "written"
    /\ listener' =
          [listener EXCEPT
              !.pc = "idle", !.after = "save",
              !.fs = rename(@, temp_file, offset_file)]
    /\ OffsetFrame

\* the process is killed inside _save_offset, before the rename, and is
\* started again
OffsetCrash ==
    /\ listener.pc \in {"open", "written"}
    /\ listener' = [listener EXCEPT !.pc = "idle", !.after = "crash"]
    /\ OffsetFrame

\* _load_offset
OffsetLoad ==
    /\ listener.pc = "idle" /\ ~listener.has_loaded
    /\ listener' =
          [listener EXCEPT !.has_loaded = TRUE,
                           !.loaded = load_offset(listener.fs)]
    /\ OffsetFrame

\* ------------------------------------------------ utils: time_parser
\* a time string is a sequence of characters; a datetime is its reading in
\* minutes since 2026-01-20T00:00 on its own clock, with tzinfo (aware) and
\* utcoffset in minutes; `now` is counted from the same midnight in UTC
UpperChars == <<"A", "B", "C", "D", "E", "F", "G", "H", "I", "J", "K", "L", "M", "N", "O", "P", "Q", "R", "S", "T", "U", "V", "W", "X", "Y", "Z">>
LowerChars == <<"a", "b", "c", "d", "e", "f", "g", "h", "i", "j", "k", "l", "m", "n", "o", "p", "q", "r", "s", "t", "u", "v", "w", "x", "y", "z">>

\* str.lower()
lower(s) ==
    [k \in DOMAIN s |->
        IF \E u \in DOMAIN UpperChars : UpperChars[u] = s[k]
        THEN LowerChars[CHOOSE u \in DOMAIN UpperChars : UpperChars[u] = s[k]]
        ELSE s[k]]

\* `c in s`, s.startswith(p), s.endswith(p)
contains(s, c) == \E k \in DOMAIN s : s[k] = c
startswith(s, p) == Len(s) >= Len(p) /\ SubSeq(s, 1, Len(p)) = p
endswith(s, p) == Len(s) >= Len(p) /\ SubSeq(s, Len(s) - Len(p) + 1, Len(s)) = p

\* s.replace("Z", "+00:00")
RECURSIVE replace_Z(_)
replace_Z(s) ==
    IF s = <<>> THEN s
    ELSE (IF Head(s) = "Z" THEN <<"+", "0", "0", ":", "0", "0">> ELSE <<Head(s)>>)
         \o replace_Z(Tail(s))

\* s.split(): the runs of characters between whitespace
RECURSIVE split(_)
split(s) ==
    IF s = <<>> THEN <<>>
    ELSE IF Head(s) \in Whitespace THEN split(Tail(s))
    ELSE LET rest == split(Tail(s))
         IN  IF Len(s) > 1 /\ s[2] \notin Whitespace
             THEN <<<<Head(s)>> \o Head(rest)>> \o Tail(rest)
             ELSE <<<<Head(s)>>>> \o rest

\* unit.rstrip("s")
RECURSIVE rstrip_s(_)
rstrip_s(s) ==
    IF s # <<>> /\ s[Len(s)] = "s" THEN rstrip_s(SubSeq(s, 1, Len(s) - 1)) ELSE s

\* what int(parts[0]) accepts: digits after an optional sign
IsIntLiteral(s) ==
    \/ IsDigits(s)
    \/ Len(s) > 1 /\ s[1] \in {"+", "-"} /\ IsDigits(Tail(s))

\* int(parts[0])
int_signed(s) ==
    IF s[1] = "-" THEN 0 - int(Tail(s))
    ELSE IF s[1] = "+" THEN int(Tail(s))
    ELSE int(s)

\* the results of parse_time_string: a datetime or a ValueError
ValueError(message) ==
    [raised |-> TRUE, message |-> message, aware |-> FALSE, utcoffset |-> 0,
     minutes |-> 0]
datetime(minutes, aware, utcoffset) ==
    [raised |-> FALSE, message |-> "", aware |-> aware,
     utcoffset |-> utcoffset, minutes |-> minutes]

MinutesPerHour == 60
MinutesPerDay == 1440

\* two digits at k as a number, None when they are not digits
TwoDigits(s, k) ==
    IF Len(s) > k /\ IsDigits(SubSeq(s, k, k + 1)) THEN int(SubSeq(s, k, k + 1))
    ELSE None

\* the UTC offset fromisoformat reads after the time: nothing (a naive
\* datetime), or +HH:MM / -HH:MM
IsoOffset(s) ==
    IF s = <<>> THEN [ok |-> TRUE, aware |-> FALSE, utcoffset |-> 0]
    ELSE IF /\ Len(s) = 6 /\ s[1] \in {"+", "-"} /\ s[4] = ":"
            /\ TwoDigits(s, 2) \in 0..23 /\ TwoDigits(s, 5) \in 0..59
    THEN [ok |-> TRUE, aware |-> TRUE,
          utcoffset |-> (IF s[1] = "-" THEN 0 - 1 ELSE 1)
                        * (TwoDigits(s, 2) * MinutesPerHour + TwoDigits(s, 5))]
    ELSE [ok |-> FALSE, aware |-> FALSE, utcoffset |-> 0]

\* the fraction of a second: "." and three or six digits
IsoFraction(s) ==
    IF Len(s) >= 7 /\ s[1] = "." /\ IsDigits(SubSeq(s, 2, 7)) THEN 7
    ELSE IF Len(s) >= 4 /\ s[1] = "." /\ IsDigits(SubSeq(s, 2, 4)) THEN 4
    ELSE 0

\* datetime.fromisoformat for the extended format of a day of January 2026,
\* YYYY-MM-DD<sep>HH:MM:SS[.ffffff][+HH:MM]; anything else is a ValueError
fromisoformat(s) ==
    IF /\ Len(s) >= 19
       /\ IsDigits(SubSeq(s, 1, 4)) /\ s[5] = "-" /\ s[8] = "-"
       /\ TwoDigits(s, 6) \in 1..12 /\ TwoDigits(s, 9) \in 1..31
       /\ TwoDigits(s, 12) \in 0..23 /\ s[14] = ":"
       /\ TwoDigits(s, 15) \in 0..59 /\ s[17] = ":"
       /\ TwoDigits(s, 18) \in 0..59
    THEN LET rest == SubSeq(s, 20, Len(s))
             tz == IsoOffset(SubSeq(rest, IsoFraction(rest) + 1, Len(rest)))
         IN  IF tz.ok
             THEN datetime((TwoDigits(s, 9) - 20) * MinutesPerDay
                           + TwoDigits(s, 12) * MinutesPerHour + TwoDigits(s, 15),
                           tz.aware, tz.utcoffset)
             ELSE ValueError("Invalid isoformat string")
    ELSE ValueError("Invalid isoformat string")

\* datetime.now(timezone.utc) + timedelta(...)
utc(minutes) == datetime(minutes, TRUE, 0)

\* the amount test and the units of the relative branch of
\* parse_time_string
relative_time(parts, clock) ==
    IF Len(parts) # 2 THEN ValueError("Could not parse time string")
    ELSE IF ~IsIntLiteral(parts[1]) THEN ValueError("Invalid amount in time string")
    ELSE LET amount == int_signed(parts[1])
             unit == rstrip_s(parts[2])
         IN  IF unit = <<"m", "i", "n", "u", "t", "e">> THEN utc(clock + amount)
             ELSE IF unit = <<"h", "o", "u", "r">>
             THEN utc(clock + amount * MinutesPerHour)
             ELSE IF unit = <<"d", "a", "y">>
             THEN utc(clock + amount * MinutesPerDay)
             ELSE ValueError("Could not parse time string")

\* parse_time_string(time_str) when datetime.now(timezone.utc) is `clock`
parse_time_string(time_str, clock) ==
    LET s == strip(time_str)
    IN  IF contains(s, "T") \/ endswith(s, <<"Z">>)
           \/ endswith(s, <<"+", "0", "0", ":", "0", "0">>)
        THEN fromisoformat(replace_Z(s))
        ELSE IF lower(s) = <<"n", "o", "w">> THEN utc(clock)
        ELSE IF startswith(lower(s), <<"i", "n", " ">>)
        THEN relative_time(split(SubSeq(lower(s), 4, Len(s))), clock)
        ELSE ValueError("Could not parse time string")

\* the time strings tried: keywords, relative times in three spellings of
\* "in" with amounts and units that are and are not of the grammar, ISO
\* date-times with and without fraction and offset, and strings with
\* whitespace around them
TimeKeywords ==
    {<<"n", "o", "w">>,
     <<"N", "O", "W">>,
     <<"N", "o", "W">>,
     <<"t", "o", "m", "o", "r", "r", "o", "w">>,
     <<"i", "n", " ", "5">>,
     <<"i", "n", " ", "m", "i", "n", "u", "t", "e", "s">>,
     <<>>,
     <<" ">>,
     <<" ", " ", "i", "n", " ", "5", " ", "m", "i", "n", "u", "t", "e", "s", " ">>,
     <<" ", "2", "0", "2", "6", "-", "0", "1", "-", "2", "0", "T", "0", "9", ":", "3", "0", ":", "0", "0", "Z", " ">>,
     <<"2", "0", "2", "6", "-", "0", "1", "-", "2", "0">>}
InWords == {<<"i", "n">>, <<"I", "N">>, <<"I", "n">>}
Amounts == {<<"0">>, <<"5">>, <<"3", "0">>, <<"-", "5">>, <<"+", "5">>, <<"2", ".", "5">>, <<"t", "w", "o">>}
Units ==
    {<<"m", "i", "n", "u", "t", "e">>,
     <<"m", "i", "n", "u", "t", "e", "s">>,
     <<"M", "I", "N", "U", "T", "E", "S">>,
     <<"h", "o", "u", "r">>,
     <<"h", "o", "u", "r", "s">>,
     <<"H", "O", "U", "R", "S">>,
     <<"H", "o", "u", "r", "s">>,
     <<"d", "a", "y">>,
     <<"d", "a", "y", "s">>,
     <<"D", "A", "Y", "S">>,
     <<"w", "e", "e", "k", "s">>,
     <<"h", "o", "u", "r", "s", "s">>}
RelativeTimes ==
    {w \o <<" ">> \o a \o <<" ">> \o u : w \in InWords, a \in Amounts, u \in Units}
IsoBodies ==
    {<<"2", "0", "2", "6", "-", "0", "1", "-", "2", "0", "T", "0", "9", ":", "3", "0", ":", "0", "0">>,
     <<"2", "0", "2", "6", "-", "0", "1", "-", "2", "1", "T", "0", "0", ":", "0", "0", ":", "0", "0">>,
     <<"2", "0", "2", "6", "-", "1", "3", "-", "0", "1", "T", "0", "9", ":", "0", "0", ":", "0", "0">>,
     <<"2", "0", "2", "6", "-", "0", "1", "-", "2", "0", "t", "0", "9", ":", "3", "0", ":", "0", "0">>}
IsoFractions == {<<>>, <<".", "1", "2", "3", "4", "5", "6">>}
IsoSuffixes ==
    {<<>>, <<"Z">>, <<"z">>, <<"+", "0", "0", ":", "0", "0">>, <<"+", "0", "5", ":", "3", "0">>}
IsoTimes == {b \o f \o z : b \in IsoBodies, f \in IsoFractions, z \in IsoSuffixes}
TimeStrings == TimeKeywords \cup RelativeTimes \cup IsoTimes

\* one call of parse_time_string
NoResult == ValueError("")
TimeCall(time_str) == [pc |-> "called", time_str |-> time_str, result |-> NoResult]

TimeFrame == UNCHANGED <<storeVars, callVars, daemonVars, executor, sentinel, listener>>

\* parse_time_string(time_str) returns or raises
ParseTime ==
    /\ api.pc = "called"
    /\ api' = [api EXCEPT !.pc = "returned",
                          !.result = parse_time_string(api.time_str, now)]
    /\ TimeFrame

\* the next call
ParseCall ==
    /\ api.pc = "returned"
    /\ \E s \in TimeStrings : api' = TimeCall(s)
    /\ TimeFrame

\* --------------------------------------------------------- api: server
\* PULSE_API_TOKEN as ReeveConfig reads it (unset or empty: NoToken), and
\* the Authorization header of a request: missing, or a scheme with its
\* credentials
NoToken == ""
ConfiguredTokens == {NoToken, "secret"}
Authorizations ==
    {[scheme |-> "missing", credentials |-> ""]}
    \cup [scheme : {"Basic", "Bearer"}, credentials : {"", "secret", "wrong"}]

\* security = HTTPBearer(): the status it raises, 0 when it hands the
\* credentials on
HTTPBearer(authorization) ==
    IF authorization.scheme # "Bearer" \/ authorization.credentials = ""
    THEN 401 ELSE 0

\* variant: any bearer credentials pass
verify_bearer_token_any(api_token, authorization) ==
    IF HTTPBearer(authorization) # 0 THEN HTTPBearer(authorization)
    ELSE IF api_token = NoToken THEN 500
    ELSE 0

\* verify_bearer_token behind Depends(security): the status of the
\* HTTPException raised, 0 when it returns True
verify_bearer_token(api_token, authorization) ==
    IF HTTPBearer(authorization) # 0 THEN HTTPBearer(authorization)
    ELSE IF api_token = NoToken THEN 500
    ELSE IF authorization.credentials # api_token THEN 403
    ELSE 0

\* the scheduled_at strings of the requests
ApiTimes ==
    {<<"n", "o", "w">>,
     <<"i", "n", " ", "5", " ", "m", "i", "n", "u", "t", "e", "s">>,
     <<"t", "o", "m", "o", "r", "r", "o", "w">>,
     <<"2", "0", "2", "6", "-", "0", "1", "-", "2", "0", "T", "0", "0", ":", "0", "1", ":", "0", "0", "Z">>}

\* the UTC minute of a datetime, as the store keeps it
timestamp(d) == d.minutes - d.utcoffset

\* the API of a daemon with its configuration, between requests
ApiUp(api_token) ==
    [pc |-> "idle", pulse_api_token |-> api_token,
     authorization |-> [scheme |-> "missing", credentials |-> ""],
     scheduled_at |-> <<>>, status_code |-> 0, pulse_id |-> None]

ApiFrame == UNCHANGED <<callVars, daemonVars, executor, sentinel, listener>>

\* POST /api/pulse/schedule arrives with a body that is valid JSON of a
\* SchedulePulseRequest
ApiRequest ==
    /\ api.pc \in {"idle", "responded"}
    /\ \E a \in Authorizations, t \in ApiTimes :
          api' = [api EXCEPT !.pc = "received", !.authorization = a,
                             !.scheduled_at = t, !.status_code = 0,
                             !.pulse_id = None]
    /\ UNCHANGED storeVars
    /\ ApiFrame

\* the dependency raises, or the endpoint runs: 400 for a time string that
\* does not parse, 500 when queue.schedule_pulse raises, else the pulse is
\* inserted and its id returned
ApiRespond ==
    /\ api.pc = "received"
    /\ LET denied == verify_bearer_token(api.pulse_api_token, api.authorization)
           parsed == parse_time_string(api.scheduled_at, now)
       IN  \E store_raises \in BOOLEAN :
              IF denied # 0
              THEN /\ api' = [api EXCEPT !.pc = "responded", !.status_code = denied]
                   /\ UNCHANGED <<pulses, parent>>
              ELSE IF parsed.raised
              THEN /\ api' = [api EXCEPT !.pc = "responded", !.status_code = 400]
                   /\ UNCHANGED <<pulses, parent>>
              ELSE IF store_raises
              THEN /\ api' = [api EXCEPT !.pc = "responded", !.status_code = 500]
                   /\ UNCHANGED <<pulses, parent>>
              ELSE /\ Len(pulses) < Capacity
                   /\ pulses' = schedule_pulse_with(pulses, timestamp(parsed), "prompt", "high", NoSession, NoList, NoList, "external", 3)
                   /\ parent' = Append(parent, None)
                   /\ api' = [api EXCEPT !.pc = "responded", !.status_code = 200,
                                         !.pulse_id = Len(pulses) + 1]
    /\ UNCHANGED now
    /\ ApiFrame

\* ------------------------------------------ TelegramListener: polling
max_consecutive_errors == 10
MaxBackoff == 300
PollSleep == 1

\* TELEGRAM_CHAT_ID, and the chats updates come from
chat_id == "12345"
ChatIds == {"12345", "99999"}

\* what _process_update looks at: an update without "message", one whose
\* "message" is not an object (message.get raises), or a message of a chat
\* with or without text
UpdateShapes ==
    {[message |-> "missing", chat |-> "", text |-> FALSE],
     [message |-> "malformed", chat |-> "", text |-> FALSE]}
    \cup [message : {"present"}, chat : ChatIds, text : BOOLEAN]

UpdateIds == 1..MaxUpdates

\* variant: no chat filter
process_update_unfiltered(update) ==
    IF update.message = "missing" THEN "skipped"
    ELSE IF update.message = "malformed" THEN "raised"
    ELSE IF ~update.text THEN "skipped"
    ELSE "post"

\* _process_update up to the call of _trigger_pulse
process_update(update) ==
    IF update.message = "missing" THEN "skipped"
    ELSE IF update.message = "malformed" THEN "raised"
    ELSE IF update.chat # chat_id THEN "skipped"
    ELSE IF ~update.text THEN "skipped"
    ELSE "post"

\* what one getUpdates call ends with: a JSON body with ok true or false,
\* None after a timeout, a network error or a 5xx status, a RuntimeError for
\* the statuses 401 and 404, the ValueError of a body that is not JSON
PollReturns == {"ok", "not ok", "timeout", "network error", "5xx"}
PollReturnsNone == {"timeout", "network error", "5xx"}
PollRaises == {"401", "404", "bad json"}

\* isinstance(error, RuntimeError) and "token" in str(error).lower():
\* "Invalid bot token (401 Unauthorized)", not "Bot not found (404 Not Found)"
is_token_error(outcome) == outcome = "401"

\* variant: no cap
backoff_seconds_uncapped(error_count) == 2 ^ error_count

\* min(2**self.error_count, 300)
backoff_seconds(error_count) == Min(2 ^ error_count, MaxBackoff)

RECURSIVE Batches(_, _)
\* the sequences of at most n distinct ids of S, in any order
Batches(S, n) ==
    IF n = 0 THEN {<<>>}
    ELSE {<<>>} \cup UNION {{<<u>> \o b : b \in Batches(S \ {u}, n - 1)} : u \in S}

\* the updates the upstream still holds for an offset
Pending(offset) == {u \in UpdateIds : offset = None \/ u >= offset}

\* the process before async_main: the upstream's updates, the files of
\* reeve_home
Bridge(updates, fs) ==
    [pc |-> "main", updates |-> updates, fs |-> fs,
     running |-> FALSE, last_update_id |-> None, error_count |-> 0,
     outcome |-> "none", polled |-> <<>>, batch |-> <<>>, slept |-> None,
     posted |-> {}, accepted |-> {}, skipped |-> {}, raised |-> {},
     signalled |-> FALSE, fatal |-> FALSE, cause |-> "none",
     exit_code |-> None]

BridgeFrame == UNCHANGED <<storeVars, callVars, daemonVars, executor, sentinel, api>>

\* async_main: a missing setting is sys.exit(1); otherwise start() sets
\* running, opens the sessions and loads the offset
BridgeMain ==
    /\ listener.pc = "main"
    /\ \E configured \in BOOLEAN :
          listener' =
             IF ~configured
             THEN [listener EXCEPT !.pc = "exited", !.cause = "config",
                                   !.exit_code = 1]
             ELSE [listener EXCEPT !.pc = "verify", !.running = TRUE,
                                   !.last_update_id = load_offset(listener.fs)]
    /\ BridgeFrame

\* _verify_bot_token: getMe answers ok and the signal handlers are
\* registered, or a RuntimeError leaves start() and async_main exits with 1
BridgeVerify ==
    /\ listener.pc = "verify"
    /\ \E answer \in {"ok", "not ok", "network error"} :
          listener' =
             IF answer = "ok"
             THEN [listener EXCEPT !.pc = "poll"]
             ELSE [listener EXCEPT !.pc = "exited", !.cause = "startup",
                                   !.exit_code = 1]
    /\ BridgeFrame

\* _handle_error up to its sleep
handle_error(l, outcome) ==
    LET n == l.error_count + 1
    IN  IF is_token_error(outcome) \/ n >= max_consecutive_errors
        THEN [l EXCEPT !.error_count = n, !.running = FALSE, !.fatal = TRUE,
                       !.cause = IF is_token_error(outcome) THEN "token"
                                 ELSE "errors",
                       !.pc = "stopped"]
        ELSE [l EXCEPT !.error_count = n, !.slept = backoff_seconds(n),
                       !.pc = "sleep"]

\* one getUpdates call returns or raises, up to the next await of the loop
BridgePoll ==
    /\ listener.pc = "poll"
    /\ \E outcome \in PollReturns \cup PollRaises :
       \E b \in Batches(Pending(listener.last_update_id), MaxBatch) :
          /\ outcome # "ok" => b = <<>>
          /\ LET l == [listener EXCEPT !.outcome = outcome, !.polled = b,
                                       !.batch = b]
             IN  listener' =
                    IF outcome \in PollRaises THEN handle_error(l, outcome)
                    ELSE IF outcome = "ok" /\ b # <<>>
                    THEN [l EXCEPT !.pc = "batch"]
                    ELSE IF outcome = "ok"
                    THEN [l EXCEPT !.error_count = 0, !.slept = PollSleep,
                                   !.pc = "sleep"]
                    ELSE [l EXCEPT !.slept = PollSleep, !.pc = "sleep"]
    /\ BridgeFrame

\* the next update of the batch goes through _process_update and, for a
\* text of the authorized chat, _trigger_pulse, which returns a pulse id or
\* None; after the last update the offset is saved and the error count reset
BridgeProcess ==
    /\ listener.pc = "batch"
    /\ \E accepted \in BOOLEAN :
          LET u == Head(listener.batch)
              rest == Tail(listener.batch)
              result == process_update(listener.updates[u])
              last == IF result = "raised" THEN listener.last_update_id
                      ELSE u + 1
              l == [listener EXCEPT
                       !.batch = rest,
                       !.last_update_id = last,
                       !.posted = IF result = "post" THEN @ \cup {u} ELSE @,
                       !.accepted = IF result = "post" /\ accepted
                                    THEN @ \cup {u} ELSE @,
                       !.skipped = IF result = "skipped" THEN @ \cup {u} ELSE @,
                       !.raised = IF result = "raised" THEN @ \cup {u} ELSE @]
          IN  /\ result # "post" => accepted
              /\ listener' =
                    IF rest # <<>> THEN l
                    ELSE [l EXCEPT
                             !.fs = IF last # None THEN save_offset(@, last)
                                    ELSE @,
                             !.error_count = 0, !.slept = PollSleep,
                             !.pc = "sleep"]
    /\ BridgeFrame

\* asyncio.sleep returns and `while self.running` is evaluated
BridgeSleep ==
    /\ listener.pc = "sleep"
    /\ listener' = [listener EXCEPT
                       !.pc = IF listener.running THEN "poll" ELSE "stopped"]
    /\ BridgeFrame

\* SIGTERM or SIGINT: _handle_shutdown runs as a task while the loop is
\* suspended in getUpdates, in _trigger_pulse or in a sleep
BridgeSignal ==
    /\ \/ listener.pc \in {"poll", "sleep"}
       \/ /\ listener.pc = "batch"
          /\ process_update(listener.updates[Head(listener.batch)]) = "post"
    /\ ~listener.signalled
    /\ listener' =
          [listener EXCEPT
              !.running = FALSE, !.signalled = TRUE,
              !.cause = IF @ = "none" THEN "signal" ELSE @,
              !.fs = IF listener.last_update_id # None
                     THEN save_offset(@, listener.last_update_id) ELSE @]
    /\ BridgeFrame

\* the polling loop has ended: start() closes the sessions and returns,
\* async_main returns and the process exits with 0
BridgeExit ==
    /\ listener.pc = "stopped"
    /\ listener' = [listener EXCEPT !.pc = "exited", !.exit_code = 0]
    /\ BridgeFrame

\* ------------------------------------------- direct callers of PulseQueue
\* tests, the MCP tools, the HTTP API and the debug CLI call the store from
\* their own tasks or processes; call[c] is the call caller c has in progress
\* the inputs a client of the running daemon passes
ScheduleTimes == {now}
SchedulePriorities == {"normal"}

Idle == [op |-> "none", pc |-> "idle", id |-> 0, row |-> NoRow, arg |-> 0,
         due |-> <<>>]

Loaded(op, id, arg) ==
    [op |-> op, pc |-> "commit", id |-> id, row |-> session_get(pulses, id),
     arg |-> arg, due |-> <<>>]

\* queue.schedule_pulse(scheduled_at, prompt, priority, max_retries=...)
\* with the inputs drawn from T, P and M
CallSchedule(c, T, P, M) ==
    /\ call[c].pc = "idle"
    /\ Len(pulses) < Capacity
    /\ \E t \in T, p \in P, m \in M :
          pulses' = schedule_pulse(pulses, t, p, m)
    /\ parent' = Append(parent, None)
    /\ call' = [call EXCEPT ![c] = Idle]
    /\ UNCHANGED <<peerVars, now, claims, daemonVars>>

\* two callers' arguments that differ in every column a retry inherits
Payloads ==
    {[prompt |-> "briefing", priority |-> "high", session_id |-> NoSession,
      sticky_notes |-> NoList, tags |-> <<"daily">>, created_by |-> "user"],
     [prompt |-> "follow up", priority |-> "low", session_id |-> "s1",
      sticky_notes |-> <<"note">>, tags |-> NoList, created_by |-> "reeve"]}

\* queue.schedule_pulse(...) with every keyword argument passed
CallScheduleWith(c, M) ==
    /\ call[c].pc = "idle"
    /\ Len(pulses) < Capacity
    /\ \E a \in Payloads, m \in M :
          pulses' = schedule_pulse_with(pulses, now, a.prompt, a.priority,
                                        a.session_id, a.sticky_notes, a.tags,
                                        a.created_by, m)
    /\ parent' = Append(parent, None)
    /\ call' = [call EXCEPT ![c] = Idle]
    /\ UNCHANGED <<peerVars, now, claims, daemonVars>>

\* queue.get_due_pulses(limit): one SELECT
CallGetDue(c) ==
    /\ call[c].pc = "idle"
    /\ \E limit \in 0..Capacity :
          \E r \in get_due_pulses(pulses, now, limit) :
             call' = [call EXCEPT ![c] =
                         [Idle EXCEPT !.op = "get_due_pulses",
                                      !.arg = limit, !.due = r]]
    /\ UNCHANGED <<peerVars, storeVars, claims, daemonVars>>

\* queue.mark_processing(id) up to the await of commit; a row that is
\* missing or not PENDING makes the call return False at once
CallMarkProcessing(c) ==
    /\ call[c].pc = "idle"
    /\ \E id \in Ids :
          call' = [call EXCEPT ![c] =
                      IF mark_processing_guard(session_get(pulses, id))
                      THEN Loaded("mark_processing", id, 0) ELSE Idle]
    /\ UNCHANGED <<peerVars, storeVars, claims, daemonVars>>

\* the commit of mark_processing; the call returns True
ReturnMarkProcessing(c) ==
    /\ call[c].pc = "commit" /\ call[c].op = "mark_processing"
    /\ pulses' = mark_processing(pulses, call[c].id, call[c].row)
    /\ claims' = [claims EXCEPT ![call[c].id] = @ + 1]
    /\ call' = [call EXCEPT ![c] = Idle]
    /\ UNCHANGED <<peerVars, parent, now, daemonVars>>

\* queue.cancel_pulse(id) up to the await of commit
CallCancel(c) ==
    /\ call[c].pc = "idle"
    /\ \E id \in Ids :
          call' = [call EXCEPT ![c] =
                      IF cancel_pulse_guard(session_get(pulses, id))
                      THEN Loaded("cancel_pulse", id, 0) ELSE Idle]
    /\ UNCHANGED <<peerVars, storeVars, claims, daemonVars>>

\* the commit of cancel_pulse; the call returns True
ReturnCancel(c) ==
    /\ call[c].pc = "commit" /\ call[c].op = "cancel_pulse"
    /\ pulses' = cancel_pulse(pulses, call[c].id, call[c].row)
    /\ call' = [call EXCEPT ![c] = Idle]
    /\ UNCHANGED <<peerVars, parent, now, claims, daemonVars>>

\* queue.reschedule_pulse(id, new_scheduled_at) up to the await of commit
CallReschedule(c, T) ==
    /\ call[c].pc = "idle"
    /\ \E id \in Ids, t \in T :
          call' = [call EXCEPT ![c] =
                      IF reschedule_pulse_guard(session_get(pulses, id))
                      THEN Loaded("reschedule_pulse", id, t) ELSE Idle]
    /\ UNCHANGED <<peerVars, storeVars, claims, daemonVars>>

\* the commit of reschedule_pulse; the call returns True
ReturnReschedule(c) ==
    /\ call[c].pc = "commit" /\ call[c].op = "reschedule_pulse"
    /\ pulses' = reschedule_pulse(pulses, call[c].id, call[c].row, call[c].arg)
    /\ call' = [call EXCEPT ![c] = Idle]
    /\ UNCHANGED <<peerVars, parent, now, claims, daemonVars>>

\* queue.mark_completed(id, duration): writes whatever it loaded, so the
\* call takes effect at its commit
CallMarkCompleted(c) ==
    /\ call[c].pc = "idle"
    /\ \E id \in DOMAIN pulses :
          pulses' = mark_completed(pulses, id, pulses[id], now, 0)
    /\ call' = [call EXCEPT ![c] = Idle]
    /\ UNCHANGED <<peerVars, parent, now, claims, daemonVars>>

\* queue.mark_failed(id, error, should_retry): as mark_completed
CallMarkFailed(c) ==
    /\ call[c].pc = "idle"
    /\ \E id \in DOMAIN pulses, should_retry \in BOOLEAN :
          /\ HasRoom(pulses, pulses[id], should_retry)
          /\ pulses' = mark_failed(pulses, id, pulses[id], now, "error",
                                   should_retry)
          /\ parent' = ParentAfterFail(id, pulses[id], should_retry)
    /\ call' = [call EXCEPT ![c] = Idle]
    /\ UNCHANGED <<peerVars, now, claims, daemonVars>>

\* `for pulse in pulses: await self.queue.mark_processing(pulse.id)` on the
\* list get_due_pulses returned to c, one pulse at a time
ClaimDue(c) ==
    /\ call[c].op = "get_due_pulses" /\ call[c].due # <<>>
    /\ LET id == Head(call[c].due)
           row == session_get(pulses, id)
       IN  /\ pulses' = IF mark_processing_guard(row)
                        THEN mark_processing(pulses, id, row) ELSE pulses
           /\ claims' = [claims EXCEPT ![id] =
                            IF mark_processing_guard(row) THEN @ + 1 ELSE @]
    /\ call' = [call EXCEPT ![c].due = Tail(@)]
    /\ UNCHANGED <<peerVars, parent, now, daemonVars>>

\* the wall clock of the runs that follow a retry chain
TickRetry ==
    /\ now < RetryHorizon
    /\ now' = now + 1
    /\ UNCHANGED <<peerVars, pulses, parent, callVars, daemonVars>>

\* the wall clock advances
Tick ==
    /\ now < MaxTime
    /\ now' = now + 1
    /\ UNCHANGED <<peerVars, pulses, parent, callVars, daemonVars>>

\* ------------------------------------------------ PulseDaemon: scheduler
\* schedPc: "sleep" at asyncio.sleep (or created and not yet run), "due" at
\* the await of get_due_pulses, "get" / "commit" at the awaits inside
\* mark_processing, "cancelling" once cancel() was called on the task,
\* "backoff" at asyncio.sleep(5) in the handler of an exception, "stopped"
\* after the loop has ended

\* available_slots = self.max_concurrent - len(self.executing_pulses)
available_slots == max_concurrent - Cardinality(executing_pulses)

\* variant: get_due_pulses(limit=10) whatever is in flight
fetch_limit_fixed == FetchCap

\* fetch_limit = min(10, available_slots)
fetch_limit == Min(FetchCap, available_slots)

\* `while self.running:` up to the SELECT of get_due_pulses; no free slot,
\* or nothing due, and the loop sleeps again
SchedulerPoll ==
    /\ schedPc = "sleep"
    /\ running
    /\ IF available_slots <= 0
       THEN UNCHANGED <<peerVars, batch, schedPc>>
       ELSE \E r \in get_due_pulses(pulses, now, fetch_limit) :
               /\ batch' = r
               /\ schedPc' = IF r = <<>> THEN "sleep" ELSE "due"
    /\ UNCHANGED <<peerVars, storeVars, callVars, running, max_concurrent, mpLoaded,
                   executing_pulses, task, spawned, alerts, shutdownPc, shutdown2Pc>>

\* `for pulse in pulses:` the first mark_processing(pulse.id) reads its row
SchedulerGet ==
    /\ schedPc = "due"
    /\ mpLoaded' = session_get(pulses, Head(batch))
    /\ schedPc' = "get"
    /\ UNCHANGED <<peerVars, storeVars, callVars, running, max_concurrent, batch,
                   executing_pulses, task, spawned, alerts, shutdownPc, shutdown2Pc>>

\* the next iteration of the for loop over `rest`: the read of the next
\* mark_processing, or asyncio.sleep(1) after the last pulse
NextIteration(rest) ==
    /\ batch' = rest
    /\ IF rest = <<>>
       THEN schedPc' = "sleep" /\ mpLoaded' = NoRow
       ELSE schedPc' = "get" /\ mpLoaded' = session_get(pulses', Head(rest))

\* mark_processing returned False: `if not success: continue`
SchedulerSkip ==
    /\ schedPc = "get"
    /\ ~mark_processing_guard(mpLoaded)
    /\ UNCHANGED pulses
    /\ NextIteration(Tail(batch))
    /\ UNCHANGED <<peerVars, parent, now, callVars, running, max_concurrent,
                   executing_pulses, task, spawned, alerts, shutdownPc, shutdown2Pc>>

\* mark_processing sets the status and commits
SchedulerCommit ==
    /\ schedPc = "get"
    /\ mark_processing_guard(mpLoaded)
    /\ pulses' = mark_processing(pulses, Head(batch), mpLoaded)
    /\ schedPc' = "commit"
    /\ UNCHANGED <<peerVars, parent, now, callVars, running, max_concurrent, batch,
                   mpLoaded, executing_pulses, task, spawned, alerts,
                   shutdownPc, shutdown2Pc>>

\* what a Store call that raises leaves as it was: nothing was committed
StoreErrorFrame ==
    /\ batch' = <<>>
    /\ mpLoaded' = NoRow
    /\ UNCHANGED <<peerVars, storeVars, callVars, running, max_concurrent,
                   executing_pulses, task, spawned, alerts, shutdownPc,
                   shutdown2Pc>>

\* variant: the exception leaves the loop
SchedulerGetDueRaises_fatal ==
    /\ schedPc = "sleep"
    /\ running
    /\ available_slots > 0
    /\ schedPc' = "stopped"
    /\ StoreErrorFrame

\* get_due_pulses raises: `except Exception as e:` logs and goes to
\* asyncio.sleep(5)
SchedulerGetDueRaises ==
    /\ schedPc = "sleep"
    /\ running
    /\ available_slots > 0
    /\ schedPc' = "backoff"
    /\ StoreErrorFrame

\* mark_processing raises at its read or at its commit: the rest of the
\* batch is dropped, the same handler runs
SchedulerMarkProcessingRaises ==
    /\ schedPc \in {"due", "get"}
    /\ schedPc' = "backoff"
    /\ StoreErrorFrame

\* asyncio.sleep(5) is over: back to `while self.running:`
SchedulerBackoff ==
    /\ schedPc = "backoff"
    /\ schedPc' = "sleep"
    /\ UNCHANGED <<peerVars, storeVars, callVars, running, max_concurrent, batch,
                   mpLoaded, executing_pulses, task, spawned, alerts,
                   shutdownPc, shutdown2Pc>>

\* asyncio.create_task(self._execute_pulse(pulse)); executing_pulses.add(task)
create_task(id) ==
    /\ task' = [task EXCEPT ![id] = "execute"]
    /\ executing_pulses' = executing_pulses \cup {id}
    /\ spawned' = [spawned EXCEPT ![id] = @ + 1]

\* mark_processing returned True: the task is created, the loop goes on
SchedulerSpawn ==
    /\ schedPc = "commit"
    /\ claims' = [claims EXCEPT ![Head(batch)] = @ + 1]
    /\ create_task(Head(batch))
    /\ UNCHANGED pulses
    /\ NextIteration(Tail(batch))
    /\ UNCHANGED <<peerVars, parent, now, call, running, max_concurrent, alerts,
                   shutdownPc, shutdown2Pc>>

\* ------------------------------------------ PulseDaemon: execution tasks
\* task[i]: "execute" from create_task to the commit of mark_completed or
\* mark_failed, "completing" / "failing" from that commit to the end of the
\* coroutine, "cancelling" once cancel() was called on the task; it ends
\* "succeeded", "failed" or "cancelled"

\* executor.execute returned: mark_completed(pulse_id, duration_ms) commits
ExecuteReturns(i) ==
    /\ task[i] = "execute"
    /\ pulses' = mark_completed(pulses, i, pulses[i], now, 0)
    /\ task' = [task EXCEPT ![i] = "completing"]
    /\ UNCHANGED <<peerVars, parent, now, callVars, running, max_concurrent, schedPc,
                   batch, mpLoaded, executing_pulses, spawned, alerts,
                   shutdownPc, shutdown2Pc>>

\* executor.execute raised: mark_failed(pulse_id, str(e), should_retry=True)
\* commits
ExecuteRaises(i) ==
    /\ task[i] = "execute"
    /\ HasRoom(pulses, pulses[i], TRUE)
    /\ pulses' = mark_failed(pulses, i, pulses[i], now, "error", TRUE)
    /\ parent' = ParentAfterFail(i, pulses[i], TRUE)
    /\ task' = [task EXCEPT ![i] = "failing"]
    /\ UNCHANGED <<peerVars, now, callVars, running, max_concurrent, schedPc, batch,
                   mpLoaded, executing_pulses, spawned, alerts, shutdownPc, shutdown2Pc>>

\* the id mark_failed returned to the task of pulse i
RetryOf(i) ==
    IF \E r \in DOMAIN parent : parent[r] = i
    THEN CHOOSE r \in DOMAIN parent : parent[r] = i
    ELSE None

\* variant: every failure is reported
execute_pulse_alerts_every_failure(i, retry_pulse_id) == alerts \cup {i}

\* the cooldown keys Sentinel has been invoked with once _execute_pulse has
\* handled the value of mark_failed: both branches of `if retry_pulse_id:`
\* only log
execute_pulse_alerts(i, retry_pulse_id) == alerts

\* variant: no done callback, the task stays in executing_pulses
TaskDone_kept(i) ==
    /\ task[i] \in {"completing", "failing"}
    /\ alerts' = IF task[i] = "failing"
                 THEN execute_pulse_alerts(i, RetryOf(i)) ELSE alerts
    /\ task' = [task EXCEPT ![i] =
                   IF task[i] = "failing" THEN "failed" ELSE "succeeded"]
    /\ UNCHANGED <<peerVars, storeVars, callVars, running, max_concurrent, schedPc,
                   batch, mpLoaded, executing_pulses, spawned, shutdownPc, shutdown2Pc>>

\* the coroutine ends; the done callback discards the task
TaskDone(i) ==
    /\ task[i] \in {"completing", "failing"}
    /\ alerts' = IF task[i] = "failing"
                 THEN execute_pulse_alerts(i, RetryOf(i)) ELSE alerts
    /\ task' = [task EXCEPT ![i] =
                   IF task[i] = "failing" THEN "failed" ELSE "succeeded"]
    /\ executing_pulses' = executing_pulses \ {i}
    /\ UNCHANGED <<peerVars, storeVars, callVars, running, max_concurrent, schedPc,
                   batch, mpLoaded, spawned, shutdownPc, shutdown2Pc>>

\* variant: `except Exception` catches the CancelledError and records a
\* failure
TaskCancelled_recorded(i) ==
    /\ task[i] = "cancelling"
    /\ HasRoom(pulses, pulses[i], TRUE)
    /\ pulses' = mark_failed(pulses, i, pulses[i], now, "error", TRUE)
    /\ parent' = ParentAfterFail(i, pulses[i], TRUE)
    /\ task' = [task EXCEPT ![i] = "cancelled"]
    /\ executing_pulses' = executing_pulses \ {i}
    /\ UNCHANGED <<peerVars, now, callVars, running, max_concurrent, schedPc, batch,
                   mpLoaded, spawned, alerts, shutdownPc, shutdown2Pc>>

\* CancelledError is raised inside the coroutine at its await: it is no
\* Exception, so nothing is recorded; the done callback discards the task
TaskCancelled(i) ==
    /\ task[i] = "cancelling"
    /\ task' = [task EXCEPT ![i] = "cancelled"]
    /\ executing_pulses' = executing_pulses \ {i}
    /\ UNCHANGED <<peerVars, storeVars, callVars, running, max_concurrent, schedPc,
                   batch, mpLoaded, spawned, alerts, shutdownPc, shutdown2Pc>>

\* ---------------------------------------------- PulseDaemon: shutdown
\* shutdownPc: "none" before a signal, then the awaits of _handle_shutdown:
\* "await_scheduler", "await_api", "gather", "timeout" (inside wait_for once
\* its 30 seconds are over), "close", and "stopped" once shutdown_event is set

\* variant: running = False without scheduler_task.cancel()
ShutdownBegin_flag_only ==
    /\ shutdownPc = "none"
    /\ shutdown2Pc = "none"
    /\ running
    /\ running' = FALSE
    /\ shutdownPc' = "await_scheduler"
    /\ UNCHANGED <<peerVars, shutdown2Pc, storeVars, callVars, max_concurrent, schedPc, batch,
                   mpLoaded, executing_pulses, task, spawned, alerts>>

\* SIGTERM / SIGINT: running = False; scheduler_task.cancel()
ShutdownBegin ==
    /\ shutdownPc = "none"
    /\ shutdown2Pc = "none"
    /\ running
    /\ running' = FALSE
    /\ schedPc' = "cancelling"
    /\ shutdownPc' = "await_scheduler"
    /\ UNCHANGED <<peerVars, shutdown2Pc, storeVars, callVars, max_concurrent, batch, mpLoaded,
                   executing_pulses, task, spawned, alerts>>

\* `except asyncio.CancelledError: break` in _scheduler_loop
SchedulerCancelled ==
    /\ schedPc = "cancelling"
    /\ schedPc' = "stopped"
    /\ batch' = <<>>
    /\ mpLoaded' = NoRow
    /\ UNCHANGED <<peerVars, storeVars, callVars, running, max_concurrent,
                   executing_pulses, task, spawned, alerts, shutdownPc, shutdown2Pc>>

\* the scheduler task has ended: api_task.cancel(); await api_task
ShutdownApi ==
    /\ shutdownPc = "await_scheduler"
    /\ schedPc = "stopped"
    /\ shutdownPc' = "await_api"
    /\ UNCHANGED <<peerVars, shutdown2Pc, storeVars, callVars, running, max_concurrent, schedPc,
                   batch, mpLoaded, executing_pulses, task, spawned, alerts>>

\* variant: the store is closed without waiting for the tasks in flight
ShutdownWait_skipped ==
    /\ shutdownPc = "await_api"
    /\ shutdownPc' = "close"
    /\ UNCHANGED <<peerVars, shutdown2Pc, storeVars, callVars, running, max_concurrent,
                   schedPc, batch, mpLoaded, executing_pulses, task, spawned,
                   alerts>>

\* `if self.executing_pulses:` wait_for(gather(...), timeout=30.0)
ShutdownWait ==
    /\ shutdownPc = "await_api"
    /\ shutdownPc' = IF executing_pulses = {} THEN "close" ELSE "gather"
    /\ UNCHANGED <<peerVars, shutdown2Pc, storeVars, callVars, running, max_concurrent, schedPc,
                   batch, mpLoaded, executing_pulses, task, spawned, alerts>>

\* every in-flight task ended within the 30 seconds
ShutdownGathered ==
    /\ shutdownPc = "gather"
    /\ executing_pulses = {}
    /\ shutdownPc' = "close"
    /\ UNCHANGED <<peerVars, shutdown2Pc, storeVars, callVars, running, max_concurrent, schedPc,
                   batch, mpLoaded, executing_pulses, task, spawned, alerts>>

\* the tasks once wait_for has cancelled the gather of those in flight
CancelAll ==
    [i \in AllIds |-> IF i \in executing_pulses THEN "cancelling" ELSE task[i]]

\* variant: gather without a timeout
ShutdownTimeout_never ==
    /\ FALSE
    /\ UNCHANGED vars

\* the 30 seconds are over: wait_for cancels the gather, and with it every
\* task still in flight, and waits until they have ended
ShutdownTimeout ==
    /\ shutdownPc = "gather"
    /\ executing_pulses # {}
    /\ task' = CancelAll
    /\ shutdownPc' = "timeout"
    /\ UNCHANGED <<peerVars, shutdown2Pc, storeVars, callVars, running, max_concurrent,
                   schedPc, batch, mpLoaded, executing_pulses, spawned, alerts>>

\* wait_for raises asyncio.TimeoutError once the cancelled tasks have ended:
\* `for task in self.executing_pulses: task.cancel()` finds none in flight
ShutdownForceCancel ==
    /\ shutdownPc = "timeout"
    /\ executing_pulses = {}
    /\ shutdownPc' = "close"
    /\ UNCHANGED <<peerVars, shutdown2Pc, storeVars, callVars, running, max_concurrent,
                   schedPc, batch, mpLoaded, executing_pulses, task, spawned,
                   alerts>>

\* await self.queue.close(); self.shutdown_event.set()
ShutdownClose ==
    /\ shutdownPc = "close"
    /\ shutdownPc' = "stopped"
    /\ UNCHANGED <<peerVars, shutdown2Pc, storeVars, callVars, running, max_concurrent, schedPc,
                   batch, mpLoaded, executing_pulses, task, spawned, alerts>>

\* ------------------------------------- PulseDaemon: a second signal
\* add_signal_handler creates one more _handle_shutdown task for every
\* signal; shutdown2Pc is where the second one is suspended

\* what the second task leaves alone in each of its steps but the timeout
SecondFrame ==
    UNCHANGED <<peerVars, shutdownPc, storeVars, callVars, running, max_concurrent,
                schedPc, batch, mpLoaded, executing_pulses, task, spawned,
                alerts>>

\* a signal during the drain: running = False; scheduler_task.cancel(),
\* which does nothing to a task that has ended
SecondSignal ==
    /\ shutdownPc \notin {"none", "stopped"}
    /\ shutdown2Pc = "none"
    /\ running' = FALSE
    /\ schedPc' = IF schedPc = "stopped" THEN "stopped" ELSE "cancelling"
    /\ shutdown2Pc' = "await_scheduler"
    /\ UNCHANGED <<peerVars, shutdownPc, storeVars, callVars, max_concurrent, batch,
                   mpLoaded, executing_pulses, task, spawned, alerts>>

SecondApi ==
    /\ shutdown2Pc = "await_scheduler"
    /\ schedPc = "stopped"
    /\ shutdown2Pc' = "await_api"
    /\ SecondFrame

SecondWait ==
    /\ shutdown2Pc = "await_api"
    /\ shutdown2Pc' = IF executing_pulses = {} THEN "close" ELSE "gather"
    /\ SecondFrame

SecondGathered ==
    /\ shutdown2Pc = "gather"
    /\ executing_pulses = {}
    /\ shutdown2Pc' = "close"
    /\ SecondFrame

SecondTimeout ==
    /\ shutdown2Pc = "gather"
    /\ executing_pulses # {}
    /\ task' = CancelAll
    /\ shutdown2Pc' = "timeout"
    /\ UNCHANGED <<peerVars, shutdownPc, storeVars, callVars, running, max_concurrent,
                   schedPc, batch, mpLoaded, executing_pulses, spawned, alerts>>

SecondForceCancel ==
    /\ shutdown2Pc = "timeout"
    /\ executing_pulses = {}
    /\ shutdown2Pc' = "close"
    /\ SecondFrame

SecondClose ==
    /\ shutdown2Pc = "close"
    /\ shutdown2Pc' = "stopped"
    /\ SecondFrame

\* --------------------------------------------------- initial conditions
NoCalls == [c \in Callers |-> Idle]
NoClaims == [i \in AllIds |-> 0]
NoTasks == [i \in AllIds |-> "none"]

\* the daemon before start(): nothing runs
DaemonDown ==
    /\ running = FALSE
    /\ max_concurrent = 1
    /\ schedPc = "none"
    /\ batch = <<>>
    /\ mpLoaded = NoRow
    /\ executing_pulses = {}
    /\ task = NoTasks
    /\ spawned = NoClaims
    /\ alerts = {}
    /\ shutdownPc = "none"
    /\ shutdown2Pc = "none"
    /\ PeersIdle

\* the daemon after start(): both tasks created, an empty store
Init ==
    /\ pulses = <<>> /\ parent = <<>> /\ now = 0
    /\ call = NoCalls /\ claims = NoClaims
    /\ running = TRUE
    /\ max_concurrent \in 1..MaxConcurrent
    /\ schedPc = "sleep"
    /\ batch = <<>>
    /\ mpLoaded = NoRow
    /\ executing_pulses = {}
    /\ task = NoTasks
    /\ spawned = NoClaims
    /\ alerts = {}
    /\ shutdownPc = "none"
    /\ shutdown2Pc = "none"
    /\ PeersIdle

Scheduler ==
    \/ SchedulerPoll \/ SchedulerGet \/ SchedulerSkip
    \/ SchedulerCommit \/ SchedulerSpawn \/ SchedulerCancelled

Tasks ==
    \E i \in DOMAIN pulses :
        \/ ExecuteReturns(i) \/ ExecuteRaises(i)
        \/ TaskDone(i) \/ TaskCancelled(i)

Shutdown ==
    \/ ShutdownBegin \/ ShutdownApi \/ ShutdownWait
    \/ ShutdownGathered \/ ShutdownTimeout \/ ShutdownForceCancel
    \/ ShutdownClose

\* another process that writes to the store while the daemon runs
Clients ==
    \/ CallSchedule("c1", ScheduleTimes, SchedulePriorities, 0..MaxRetries)
    \/ CallCancel("c1") \/ ReturnCancel("c1")
    \/ CallReschedule("c1", {now + 1}) \/ ReturnReschedule("c1")

Next == Scheduler \/ Tasks \/ Shutdown \/ Clients \/ Tick

Spec == Init /\ [][Next]_vars

\* the daemon while no signal arrives: the event loop runs every task that
\* is ready, so the scheduler and the execution tasks each keep stepping
RunningScheduler ==
    \/ SchedulerPoll \/ SchedulerGet \/ SchedulerSkip
    \/ SchedulerCommit \/ SchedulerSpawn

RunningTasks ==
    \E i \in DOMAIN pulses :
        ExecuteReturns(i) \/ ExecuteRaises(i) \/ TaskDone(i)

NextLive == RunningScheduler \/ RunningTasks \/ Clients \/ Tick

SpecLive ==
    /\ Init /\ [][NextLive]_vars
    /\ WF_vars(RunningScheduler)
    /\ WF_vars(RunningTasks)

\* the daemon between its start and its exit, with signals arriving at any
\* time and pulses scheduled through the API; once a signal has arrived the
\* event loop keeps running the shutdown task, and delivers CancelledError
\* to every task cancel() was called on, while an execution task may take
\* any time over its agent
Second ==
    \/ SecondSignal \/ SecondApi \/ SecondWait \/ SecondGathered
    \/ SecondTimeout \/ SecondForceCancel \/ SecondClose

Draining ==
    \/ ShutdownApi \/ ShutdownWait \/ ShutdownGathered \/ ShutdownTimeout
    \/ ShutdownForceCancel \/ ShutdownClose

Cancelled == \E i \in DOMAIN pulses : TaskCancelled(i)

\* the scheduler while the daemon is the only writer of the store: the row
\* it reads in mark_processing is still PENDING, so it never skips
SoleWriter ==
    \/ SchedulerPoll \/ SchedulerGet
    \/ SchedulerCommit \/ SchedulerSpawn \/ SchedulerCancelled

NextDrain ==
    \/ SoleWriter \/ Tasks \/ Shutdown \/ Second
    \/ CallSchedule("c1", ScheduleTimes, SchedulePriorities, 0..MaxRetries)

SpecDrain ==
    /\ Init /\ [][NextDrain]_vars
    /\ WF_vars(Draining)
    /\ WF_vars(SchedulerCancelled)
    /\ WF_vars(Cancelled)

\* the daemon with a store that may raise inside the scheduler loop
StoreFaults ==
    \/ SchedulerGetDueRaises \/ SchedulerMarkProcessingRaises
    \/ SchedulerBackoff

NextFault ==
    \/ Scheduler \/ StoreFaults \/ Tasks \/ Shutdown
    \/ CallCancel("c1") \/ ReturnCancel("c1")
    \/ CallSchedule("c1", ScheduleTimes, SchedulePriorities, 0..MaxRetries)

SpecFault ==
    /\ Init /\ [][NextFault]_vars
    /\ WF_vars(SchedulerBackoff)

\* the daemon with one claimed pulse whose task is inside executor.execute
InitExec ==
    /\ \E m \in 0..MaxRetries :
          pulses = <<[NewPulse(0, "normal", m, 0) EXCEPT !.status = "processing"]>>
    /\ parent = <<None>> /\ now = 0
    /\ call = NoCalls /\ claims = NoClaims
    /\ running = TRUE
    /\ max_concurrent = 1
    /\ schedPc = "sleep"
    /\ batch = <<>>
    /\ mpLoaded = NoRow
    /\ executing_pulses = {1}
    /\ task = [NoTasks EXCEPT ![1] = "execute"]
    /\ spawned = [NoClaims EXCEPT ![1] = 1]
    /\ alerts = {}
    /\ shutdownPc = "none"
    /\ shutdown2Pc = "none"
    /\ \E cwd_exists \in BOOLEAN, found \in BOOLEAN :
          executor = Execution(cwd_exists, found)
    /\ sentinel = NoSentinel
    /\ listener = NoListener
    /\ api = NoRequest

\* `result = await self.executor.execute(...)` returned: the try block
\* goes on to mark_completed
ExecutorReturned == executor.pc = "returned" /\ ExecuteReturns(1)

\* execute raised: the `except Exception` block calls mark_failed
ExecutorRaised == executor.pc = "raised" /\ ExecuteRaises(1)

NextExec ==
    \/ ExecSpawn \/ ExecExits \/ ExecTimeout \/ ExecReaped \/ ExecEnds
    \/ ExecutorReturned \/ ExecutorRaised
    \/ TaskDone(1)
    \/ Tick

SpecExec == InitExec /\ [][NextExec]_vars

\* execute returned and `await self.queue.mark_completed(...)` raised a
\* store error before its commit: the same `except Exception` block calls
\* mark_failed, which commits
ExecutorStoreError == executor.pc = "returned" /\ ExecuteRaises(1)

\* the execution of one pulse over a store that may fail
NextExecFault == NextExec \/ ExecutorStoreError

SpecExecFault == InitExec /\ [][NextExecFault]_vars

\* two processes that call send_alert, an empty state directory
InitSentinel ==
    /\ pulses = <<>> /\ parent = <<>> /\ now = 0
    /\ call = NoCalls /\ claims = NoClaims
    /\ running = FALSE
    /\ max_concurrent = 1
    /\ schedPc = "none"
    /\ batch = <<>>
    /\ mpLoaded = NoRow
    /\ executing_pulses = {}
    /\ task = NoTasks
    /\ spawned = NoClaims
    /\ alerts = {}
    /\ shutdownPc = "none"
    /\ shutdown2Pc = "none"
    /\ executor = NoExecution
    /\ sentinel = SentinelUp
    /\ listener = NoListener
    /\ api = NoRequest

NextSentinel ==
    \/ \E p \in AlertProcs : AlertCall(p) \/ AlertSend(p) \/ AlertTouch(p)
    \/ AlertTick

SpecSentinel == InitSentinel /\ [][NextSentinel]_vars

\* the offset file alone: no file yet, or the file of an earlier run
InitOffset ==
    /\ pulses = <<>> /\ parent = <<>> /\ now = 0
    /\ call = NoCalls /\ claims = NoClaims
    /\ running = FALSE
    /\ max_concurrent = 1
    /\ schedPc = "none"
    /\ batch = <<>>
    /\ mpLoaded = NoRow
    /\ executing_pulses = {}
    /\ task = NoTasks
    /\ spawned = NoClaims
    /\ alerts = {}
    /\ shutdownPc = "none"
    /\ shutdown2Pc = "none"
    /\ executor = NoExecution
    /\ sentinel = NoSentinel
    /\ \E fs \in {NoFiles} \cup {save_offset(NoFiles, n) : n \in OffsetValues} :
          listener = OffsetIdle(fs)
    /\ api = NoRequest

NextOffset ==
    OffsetSave \/ OffsetWritten \/ OffsetRename \/ OffsetCrash \/ OffsetLoad

SpecOffset == InitOffset /\ [][NextOffset]_vars

\* the Telegram listener process: any updates upstream, no offset file or
\* the offset file of an earlier run
InitBridge ==
    /\ pulses = <<>> /\ parent = <<>> /\ now = 0
    /\ call = NoCalls /\ claims = NoClaims
    /\ running = FALSE
    /\ max_concurrent = 1
    /\ schedPc = "none"
    /\ batch = <<>>
    /\ mpLoaded = NoRow
    /\ executing_pulses = {}
    /\ task = NoTasks
    /\ spawned = NoClaims
    /\ alerts = {}
    /\ shutdownPc = "none"
    /\ shutdown2Pc = "none"
    /\ executor = NoExecution
    /\ sentinel = NoSentinel
    /\ \E updates \in [UpdateIds -> UpdateShapes],
          fs \in {NoFiles, save_offset(NoFiles, MaxUpdates)} :
          listener = Bridge(updates, fs)
    /\ api = NoRequest

NextBridge ==
    \/ BridgeMain \/ BridgeVerify \/ BridgePoll \/ BridgeProcess
    \/ BridgeSleep \/ BridgeSignal \/ BridgeExit

SpecBridge == InitBridge /\ [][NextBridge]_vars

\* parse_time_string alone, called with each of the time strings
InitTime ==
    /\ pulses = <<>> /\ parent = <<>> /\ now = 0
    /\ call = NoCalls /\ claims = NoClaims
    /\ running = FALSE
    /\ max_concurrent = 1
    /\ schedPc = "none"
    /\ batch = <<>>
    /\ mpLoaded = NoRow
    /\ executing_pulses = {}
    /\ task = NoTasks
    /\ spawned = NoClaims
    /\ alerts = {}
    /\ shutdownPc = "none"
    /\ shutdown2Pc = "none"
    /\ executor = NoExecution
    /\ sentinel = NoSentinel
    /\ listener = NoListener
    /\ \E s \in TimeStrings : api = TimeCall(s)

NextTime == ParseTime \/ ParseCall \/ Tick

SpecTime == InitTime /\ [][NextTime]_vars

\* a HapiStreamParser alone, given the lines of a stream one by one
InitStream ==
    /\ pulses = <<>> /\ parent = <<>> /\ now = 0
    /\ call = NoCalls /\ claims = NoClaims
    /\ running = FALSE
    /\ max_concurrent = 1
    /\ schedPc = "none"
    /\ batch = <<>>
    /\ mpLoaded = NoRow
    /\ executing_pulses = {}
    /\ task = NoTasks
    /\ spawned = NoClaims
    /\ alerts = {}
    /\ shutdownPc = "none"
    /\ shutdown2Pc = "none"
    /\ executor = Parsing(reset, <<>>)
    /\ sentinel = NoSentinel
    /\ listener = NoListener
    /\ api = NoRequest

NextStream == StreamParseLine \/ StreamReset

SpecStream == InitStream /\ [][NextStream]_vars

\* the API alone over an empty store, with or without a configured token
InitApi ==
    /\ pulses = <<>> /\ parent = <<>> /\ now = 0
    /\ call = NoCalls /\ claims = NoClaims
    /\ running = FALSE
    /\ max_concurrent = 1
    /\ schedPc = "none"
    /\ batch = <<>>
    /\ mpLoaded = NoRow
    /\ executing_pulses = {}
    /\ task = NoTasks
    /\ spawned = NoClaims
    /\ alerts = {}
    /\ shutdownPc = "none"
    /\ shutdown2Pc = "none"
    /\ executor = NoExecution
    /\ sentinel = NoSentinel
    /\ listener = NoListener
    /\ \E api_token \in ConfiguredTokens : api = ApiUp(api_token)

NextApi == ApiRequest \/ ApiRespond \/ Tick

SpecApi == InitApi /\ [][NextApi]_vars

\* an empty store and concurrent direct callers
InitStore ==
    /\ pulses = <<>> /\ parent = <<>> /\ now = 0
    /\ call = NoCalls /\ claims = NoClaims
    /\ DaemonDown

\* one caller, every operation of the store in any order
NextStore ==
    \/ CallSchedule("c1", {now}, {"normal"}, 0..MaxRetries)
    \/ CallMarkProcessing("c1") \/ ReturnMarkProcessing("c1")
    \/ CallCancel("c1") \/ ReturnCancel("c1")
    \/ CallReschedule("c1", {now + 1}) \/ ReturnReschedule("c1")
    \/ CallMarkCompleted("c1")
    \/ CallMarkFailed("c1")

SpecStore == InitStore /\ [][NextStore]_vars

\* the store under a caller that schedules with a full payload, asks for
\* what is due, claims it and records failures
NextRetry ==
    \/ CallScheduleWith("c1", {RetryBudget})
    \/ CallGetDue("c1") \/ ClaimDue("c1")
    \/ CallMarkFailed("c1")
    \/ TickRetry

SpecRetry == InitStore /\ [][NextRetry]_vars

\* two callers whose guarded calls interleave at their awaits
NextRace ==
    \E c \in Callers :
        \/ CallSchedule(c, {now}, {"normal"}, {0})
        \/ CallMarkProcessing(c) \/ ReturnMarkProcessing(c)
        \/ CallCancel(c) \/ ReturnCancel(c)
        \/ CallReschedule(c, {now + 1}) \/ ReturnReschedule(c)

SpecRace == InitStore /\ [][NextRace]_vars

\* a store in any condition, and a caller that asks for what is due
DueTimes == {MaxTime - 1, MaxTime}

Rows ==
    {NewPulse(t, p, 0, 0) : t \in DueTimes, p \in PulsePriority}
    \cup {[NewPulse(MaxTime - 1, "critical", 0, 0) EXCEPT !.status = st] :
          st \in PulseStatus \ {"pending"}}

InitDue ==
    /\ \E n \in 0..MaxRows : pulses \in [1..n -> Rows]
    /\ parent = [i \in DOMAIN pulses |-> None]
    /\ now = 0
    /\ call = NoCalls /\ claims = NoClaims
    /\ DaemonDown

NextDue == CallGetDue("c1") \/ Tick

SpecDue == InitDue /\ [][NextDue]_vars

\* the daemon started on a store that holds BatchPulses due pulses, with an
\* agent that succeeds
PriorityOf(i) ==
    CASE i % 5 = 1 -> "low"
      [] i % 5 = 2 -> "critical"
      [] i % 5 = 3 -> "normal"
      [] i % 5 = 4 -> "high"
      [] OTHER -> "deferred"

InitBatch ==
    /\ pulses = [i \in 1..BatchPulses |->
                    NewPulse(((i - 1) \div 5) % (MaxTime + 1), PriorityOf(i),
                             0, 0)]
    /\ parent = [i \in 1..BatchPulses |-> None]
    /\ now = MaxTime
    /\ call = NoCalls /\ claims = NoClaims
    /\ running = TRUE
    /\ max_concurrent \in {1, FetchCap + 1}
    /\ schedPc = "sleep"
    /\ batch = <<>>
    /\ mpLoaded = NoRow
    /\ executing_pulses = {}
    /\ task = NoTasks
    /\ spawned = NoClaims
    /\ alerts = {}
    /\ shutdownPc = "none"
    /\ shutdown2Pc = "none"
    /\ PeersIdle

NextBatch ==
    \/ SchedulerPoll \/ SchedulerGet \/ SchedulerCommit \/ SchedulerSpawn
    \/ \E i \in DOMAIN pulses : ExecuteReturns(i) \/ TaskDone(i)

SpecBatch == InitBatch /\ [][NextBatch]_vars

\* ======================================================================
\* The claims
\* ======================================================================
Range(s) == {s[k] : k \in DOMAIN s}

\* C1: two concurrent mark_processing(id) calls on one PENDING pulse, with
\* their reads and commits interleaved, never both return True: no id sees
\* mark_processing return True twice.  (Violated under SpecRace.)
C1_AtMostOneTrue == \A i \in AllIds : claims[i] <= 1

\* C2: each pulse id is executed at most once: mark_processing(id) returns
\* True at most once, and the scheduler creates no execution task without
\* such a True.
C2_ExecutedAtMostOnce ==
    \A i \in AllIds :
        /\ claims[i] <= 1
        /\ spawned[i] <= claims[i]
        /\ (task[i] # "none" => i \in DOMAIN pulses /\ pulses[i].status # "pending")

\* a pulse was claimed and has run, and the scheduler has polled again
C2_Witness ==
    /\ schedPc = "due"
    /\ \E i \in DOMAIN pulses :
          claims[i] = 1 /\ spawned[i] = 1 /\ task[i] \in {"succeeded", "failed"}

\* the status changes the data model allows
C3_Allowed ==
    {<<"pending", "processing">>, <<"pending", "cancelled">>,
     <<"pending", "failed">>, <<"processing", "completed">>,
     <<"processing", "failed">>}

\* C3: under any sequence of store operations every status change is one of
\* PENDING->PROCESSING, PENDING->CANCELLED, PENDING->FAILED,
\* PROCESSING->COMPLETED, PROCESSING->FAILED; COMPLETED, FAILED and CANCELLED
\* are never left.  (Violated under SpecStore.)
C3_Transitions ==
    [][\A i \in DOMAIN pulses :
          pulses'[i].status # pulses[i].status
          => <<pulses[i].status, pulses'[i].status>> \in C3_Allowed]_vars

\* the pulses i descends from by retries, and i itself
RECURSIVE Lineage(_)
Lineage(i) == IF parent[i] = None THEN {i} ELSE {i} \cup Lineage(parent[i])

Retries(i) == {r \in DOMAIN parent : parent[r] = i}

\* C4: when the execution of a pulse fails, mark_failed creates exactly one
\* retry pulse while retry_count < max_retries and none (it returns None)
\* when retry_count = max_retries; the pulse that ends the chain is the
\* (max_retries + 1)-th execution of the chain, each link executed once.
C4_RetryChain ==
    \A i \in DOMAIN pulses :
        task[i] \in {"failing", "failed"} =>
            IF pulses[i].retry_count < pulses[i].max_retries
            THEN /\ Cardinality(Retries(i)) = 1
                 /\ \A r \in Retries(i) :
                       pulses[r].retry_count = pulses[i].retry_count + 1
            ELSE /\ Retries(i) = {}
                 /\ RetryOf(i) = None
                 /\ pulses[i].retry_count = pulses[i].max_retries
                 /\ Cardinality(Lineage(i)) = pulses[i].max_retries + 1
                 /\ \A a \in Lineage(i) : spawned[a] = 1

\* a chain of MaxRetries + 1 failed executions has ended
C4_Witness ==
    \E i \in DOMAIN pulses :
        /\ task[i] = "failed"
        /\ pulses[i].max_retries = MaxRetries
        /\ pulses[i].retry_count = MaxRetries
        /\ Retries(i) = {}

\* C5: a failed execution for which mark_failed returned no retry id has
\* invoked Sentinel with the key pulse_failed_<id> once the task has ended.
\* (Violated under Spec.)
C5_AlertOnExhausted ==
    \A i \in DOMAIN pulses :
        task[i] = "failed" /\ RetryOf(i) = None => i \in alerts

\* C6 as stated: while the daemon runs, every pulse that is PENDING and due
\* is eventually claimed by the scheduler and reaches COMPLETED or FAILED.
\* (Violated under SpecLive: a client may cancel the pulse first.)
C6_DueIsExecuted ==
    \A i \in 1..MaxPulses :
        (/\ i \in DOMAIN pulses
         /\ pulses[i].status = "pending"
         /\ pulses[i].scheduled_at <= now)
        ~> (/\ i \in DOMAIN pulses
            /\ claims[i] > 0
            /\ pulses[i].status \in {"completed", "failed"})

\* C6: while the daemon runs, every pulse that is PENDING and due is
\* eventually claimed by the scheduler and then reaches COMPLETED or FAILED,
\* unless a client cancels it or moves it to a later time first; it stays
\* neither PENDING and due nor PROCESSING for ever.
C6_DueIsSettled ==
    \A i \in 1..MaxPulses :
        (/\ i \in DOMAIN pulses
         /\ pulses[i].status = "pending"
         /\ pulses[i].scheduled_at <= now)
        ~> (/\ i \in DOMAIN pulses
            /\ \/ /\ claims[i] > 0
                  /\ pulses[i].status \in {"completed", "failed"}
               \/ pulses[i].status = "cancelled"
               \/ /\ pulses[i].status = "pending"
                  /\ pulses[i].scheduled_at > now)

\* a due pulse was claimed and completed, another was cancelled unclaimed
C6_Witness ==
    \E i, j \in DOMAIN pulses :
        /\ claims[i] = 1 /\ pulses[i].status = "completed"
        /\ task[i] = "succeeded"
        /\ claims[j] = 0 /\ pulses[j].status = "cancelled"

\* C7: the tasks in flight never exceed max_concurrent; a tick fetches only
\* when a slot is free, and then at most min(10, max_concurrent - in_flight)
\* pulses, and claims none it did not fetch.
C7_BoundedConcurrency ==
    [][/\ Cardinality(executing_pulses') <= max_concurrent
       /\ schedPc = "sleep" /\ schedPc' = "due"
          => /\ max_concurrent - Cardinality(executing_pulses) > 0
             /\ Len(batch') <= 10
             /\ Len(batch') <= max_concurrent - Cardinality(executing_pulses)
       /\ schedPc = "sleep"
          /\ max_concurrent - Cardinality(executing_pulses) <= 0
          => /\ schedPc' = "sleep"
             /\ spawned' = spawned
             /\ \A i \in DOMAIN pulses :
                   pulses[i].status = "pending"
                   => pulses'[i].status = "pending"
       /\ \A i \in AllIds :
             spawned'[i] > spawned[i] => batch # <<>> /\ i = Head(batch)]_vars

\* ten tasks in flight after a fetch capped at 10 although 11 slots were free
C7_Witness ==
    /\ max_concurrent = 11
    /\ Cardinality(executing_pulses) = 10
    /\ \E i \in DOMAIN pulses : pulses[i].status = "pending"

\* C8: every pulse get_due returns is PENDING with scheduled_at <= now at the
\* moment of the call, and a PENDING pulse scheduled at now exactly is
\* returned unless the limit cut the list.
C8_GetDueOnlyDue ==
    [][call'["c1"] # call["c1"] /\ call'["c1"].op = "get_due_pulses"
       => LET r == call'["c1"].due
              limit == call'["c1"].arg
          IN  /\ \A k \in DOMAIN r :
                    /\ r[k] \in DOMAIN pulses
                    /\ pulses[r[k]].status = "pending"
                    /\ pulses[r[k]].scheduled_at <= now
              /\ \A i \in DOMAIN pulses :
                    /\ pulses[i].status = "pending"
                    /\ pulses[i].scheduled_at = now
                    /\ Len(r) < limit
                    => i \in Range(r)]_vars

\* a call returned a pulse scheduled at now exactly, and left out a pulse
\* that is not PENDING and a PENDING one scheduled later
C8_Witness ==
    /\ call["c1"].op = "get_due_pulses"
    /\ Len(call["c1"].due) < call["c1"].arg
    /\ \E k \in DOMAIN call["c1"].due :
          pulses[call["c1"].due[k]].scheduled_at = now
    /\ \E i \in DOMAIN pulses :
          pulses[i].status = "processing" /\ pulses[i].scheduled_at <= now
    /\ \E i \in DOMAIN pulses :
          pulses[i].status = "pending" /\ pulses[i].scheduled_at > now

\* the order the claim names
C9_Priorities == <<"critical", "high", "normal", "low", "deferred">>
C9_Rank(p) == CHOOSE k \in 1..5 : C9_Priorities[k] = p
C9_Precedes(a, b) ==
    \/ C9_Rank(pulses[a].priority) < C9_Rank(pulses[b].priority)
    \/ /\ pulses[a].priority = pulses[b].priority
       /\ pulses[a].scheduled_at < pulses[b].scheduled_at

\* C9: get_due(limit) returns min(limit, number due) pulses, sorted by
\* priority (CRITICAL first) and then scheduled_at ascending, and no due
\* pulse it leaves out ranks strictly before one it returns.
C9_GetDueOrdered ==
    [][call'["c1"] # call["c1"] /\ call'["c1"].op = "get_due_pulses"
       => LET r == call'["c1"].due
              limit == call'["c1"].arg
              due == {i \in DOMAIN pulses :
                        pulses[i].status = "pending"
                        /\ pulses[i].scheduled_at <= now}
          IN  /\ Len(r) = Min(limit, Cardinality(due))
              /\ Range(r) \subseteq due
              /\ \A j, k \in DOMAIN r : j < k =>
                    r[j] # r[k] /\ ~C9_Precedes(r[k], r[j])
              /\ \A i \in due \ Range(r) :
                    \A k \in DOMAIN r : ~C9_Precedes(i, r[k])]_vars

\* a call cut by its limit returned a CRITICAL pulse before an older NORMAL
\* one and left a due pulse out
C9_Witness ==
    /\ call["c1"].op = "get_due_pulses"
    /\ call["c1"].arg = 2
    /\ Len(call["c1"].due) = 2
    /\ pulses[call["c1"].due[1]].priority = "critical"
    /\ pulses[call["c1"].due[2]].priority = "normal"
    /\ pulses[call["c1"].due[1]].scheduled_at
          > pulses[call["c1"].due[2]].scheduled_at
    /\ \E i \in DOMAIN pulses :
          /\ i \notin Range(call["c1"].due)
          /\ pulses[i].status = "pending" /\ pulses[i].scheduled_at <= now

\* C10: once shutdown has begun no pulse goes from PENDING to PROCESSING and
\* no execution task is created, whatever is due or newly scheduled.
C10_NoClaimAfterShutdown ==
    [][shutdownPc # "none"
       => /\ spawned' = spawned
          /\ \A i \in DOMAIN pulses :
                ~(pulses[i].status = "pending"
                  /\ pulses'[i].status = "processing")]_vars

\* the daemon has stopped and a due PENDING pulse was never claimed
C10_Witness ==
    /\ shutdownPc = "stopped"
    /\ \E i \in DOMAIN pulses :
          /\ pulses[i].status = "pending" /\ pulses[i].scheduled_at <= now
          /\ claims[i] = 0


\* a task that has not ended
InFlight(i) == task[i] \in {"execute", "completing", "failing", "cancelling"}

\* queue.close() has been called
StoreClosed == shutdownPc = "stopped" \/ shutdown2Pc = "stopped"

\* C11: the store is closed only after every in-flight task has ended, by
\* itself or force-cancelled, and a task that ended by itself has written
\* COMPLETED or FAILED before that.
C11_ClosedAfterTasks ==
    /\ StoreClosed => \A i \in AllIds : ~InFlight(i)
    /\ \A i \in DOMAIN pulses :
          /\ task[i] \in {"completing", "succeeded"}
             => pulses[i].status = "completed"
          /\ task[i] \in {"failing", "failed"} => pulses[i].status = "failed"

\* the drain has waited for a task that then recorded COMPLETED, and closed
C11_Witness ==
    /\ shutdownPc = "stopped"
    /\ \E i \in DOMAIN pulses :
          task[i] = "succeeded" /\ pulses[i].status = "completed"
    /\ \E i \in DOMAIN pulses :
          task[i] = "cancelled" /\ pulses[i].status = "processing"

\* C12: after a signal the daemon always reaches Stopped: the scheduler has
\* ended, no execution task is in flight, the store is closed and
\* shutdown_event is set, whatever the tasks do and also when a second
\* signal arrives.
C12_ReachesStopped ==
    (shutdownPc # "none")
    ~> (/\ shutdownPc = "stopped"
        /\ schedPc = "stopped"
        /\ executing_pulses = {}
        /\ \A i \in AllIds : ~InFlight(i))

\* both shutdown tasks have run to their end after a forced cancellation
C12_Witness ==
    /\ shutdownPc = "stopped" /\ shutdown2Pc = "stopped"
    /\ schedPc = "stopped"
    /\ \E i \in DOMAIN pulses : task[i] = "cancelled"

\* C13: once its task has been force-cancelled, a pulse that is PROCESSING
\* stays PROCESSING: the task writes neither COMPLETED nor FAILED and
\* creates no retry pulse.
C13_CancelledStaysProcessing ==
    [][\A i \in DOMAIN pulses :
          task[i] \in {"cancelling", "cancelled"}
          => /\ pulses'[i] = pulses[i]
             /\ \A r \in DOMAIN parent' : parent'[r] = i => r \in DOMAIN parent
             /\ task'[i] \in {"cancelling", "cancelled"}]_vars

\* the daemon has stopped and left a force-cancelled pulse in PROCESSING
C13_Witness ==
    /\ shutdownPc = "stopped"
    /\ \E i \in DOMAIN pulses :
          /\ task[i] = "cancelled"
          /\ pulses[i].status = "processing"
          /\ Retries(i) = {}


\* C14: a Store error inside the scheduler loop never ends the loop: the
\* scheduler goes to its 5 s sleep and from there back to polling, and it
\* ends only once shutdown has been requested.
C14_LoopSurvivesStoreErrors ==
    /\ [][/\ schedPc' \in {"cancelling", "stopped"} => shutdownPc' # "none"
          /\ schedPc = "backoff" /\ schedPc' # "backoff"
             => schedPc' \in {"sleep", "cancelling"}]_vars
    /\ (schedPc = "backoff") ~> (schedPc = "sleep" \/ shutdownPc # "none")

\* a Store error has hit the loop, before shutdown, while a claimed pulse's
\* task is running and another pulse is still waiting
C14_Witness ==
    /\ schedPc = "backoff"
    /\ shutdownPc = "none"
    /\ \E i \in DOMAIN pulses : spawned[i] = 1
    /\ \E i \in DOMAIN pulses : pulses[i].status = "pending"


\* the columns a retry inherits from the pulse that failed
Inherited ==
    {"prompt", "priority", "session_id", "sticky_notes", "tags", "max_retries"}

\* C15: the row mark_failed inserts for parent p is a new PENDING row under
\* an id no row had, with retry_count one above p's and with p's prompt,
\* priority, session_id, sticky_notes, tags and max_retries; p keeps its id,
\* is FAILED after the call and stays FAILED.
C15_RetryIsNewPulse ==
    [][/\ \A r \in DOMAIN pulses' \ DOMAIN pulses :
             parent'[r] # None =>
                LET p == parent'[r]
                IN  /\ p \in DOMAIN pulses /\ p # r
                    /\ r = Len(pulses) + 1
                    /\ pulses'[r].status = "pending"
                    /\ pulses'[r].retry_count = pulses[p].retry_count + 1
                    /\ \A f \in Inherited :
                          /\ pulses'[r][f] = pulses[p][f]
                          /\ pulses'[p][f] = pulses[p][f]
                    /\ pulses'[p].retry_count = pulses[p].retry_count
                    /\ pulses'[p].status = "failed"
                    /\ \A i \in DOMAIN pulses \ {p} : pulses'[i] = pulses[i]
       /\ \A r \in DOMAIN pulses :
             parent[r] # None =>
                /\ parent'[r] = parent[r]
                /\ pulses'[parent[r]].status = "failed"]_vars

\* a retry of a retry exists, each inserted for a parent with a session, a
\* sticky note and no tags
C15_Witness ==
    \E r \in DOMAIN pulses :
        /\ parent[r] # None /\ parent[parent[r]] # None
        /\ pulses[r].status = "pending" /\ pulses[r].retry_count = 2
        /\ pulses[r].session_id = "s1"
        /\ pulses[r].sticky_notes # NoList
        /\ pulses[parent[r]].status = "failed"


C17_AlertsOnlyWhenExhausted ==
    \A i \in alerts : task[i] = "failed" /\ RetryOf(i) = None

\* a pulse failed and was given a retry, the retry succeeded, and Sentinel
\* was invoked for neither
C17_Witness ==
    \E i \in DOMAIN pulses :
        /\ task[i] = "failed"
        /\ RetryOf(i) # None
        /\ task[RetryOf(i)] = "succeeded"
        /\ alerts \cap {i, RetryOf(i)} = {}


\* C18 as stated: among due PENDING pulses with the same priority and the
\* same scheduled_at, get_due_pulses returns the lower id first, and with a
\* limit never the higher id without the lower one.
\* (Violated under SpecDue: the ORDER BY has no third key.)
C18_TiesByAscendingId ==
    [][call'["c1"] # call["c1"] /\ call'["c1"].op = "get_due_pulses"
       => LET r == call'["c1"].due
              due == {i \in DOMAIN pulses :
                        pulses[i].status = "pending"
                        /\ pulses[i].scheduled_at <= now}
              Tie(a, b) ==
                 /\ pulses[a].priority = pulses[b].priority
                 /\ pulses[a].scheduled_at = pulses[b].scheduled_at
          IN  /\ \A j, k \in DOMAIN r :
                    j < k /\ Tie(r[j], r[k]) => r[j] < r[k]
              /\ \A i \in due \ Range(r) :
                    \A k \in DOMAIN r : Tie(i, r[k]) => r[k] < i]_vars


C20_PendingWithinBudget ==
    \A i \in DOMAIN pulses :
        pulses[i].status = "pending"
        => pulses[i].retry_count <= pulses[i].max_retries

\* a PENDING retry that has used its whole budget, next to a PENDING pulse
\* schedule_pulse inserted with no budget
C20_Witness ==
    \E i, j \in DOMAIN pulses :
        /\ pulses[i].status = "pending" /\ parent[i] # None
        /\ pulses[i].retry_count = pulses[i].max_retries
        /\ pulses[i].retry_count = MaxRetries
        /\ pulses[j].status = "pending" /\ parent[j] = None
        /\ pulses[j].max_retries = 0


\* C21 as stated: cancel_pulse and reschedule_pulse write only to a pulse
\* that is PENDING when the write happens, a cancel changes nothing but the
\* status and a reschedule nothing but scheduled_at, and a call that finds
\* no PENDING pulse changes nothing.
\* (Violated under SpecRace: the status is tested before the await of the
\* commit and is not part of the UPDATE.)
C21_OnlyPendingChanges ==
    [][\A c \in Callers :
          /\ call[c].pc = "idle" /\ call'[c].pc = "commit"
             => /\ pulses' = pulses
                /\ call'[c].id \in DOMAIN pulses
                /\ pulses[call'[c].id].status = "pending"
          /\ (/\ call[c].pc = "commit" /\ call'[c].pc = "idle"
              /\ call[c].op \in {"cancel_pulse", "reschedule_pulse"})
             => LET id == call[c].id
                    f == IF call[c].op = "cancel_pulse"
                         THEN "status" ELSE "scheduled_at"
                IN  /\ pulses[id].status = "pending"
                    /\ \A i \in DOMAIN pulses \ {id} : pulses'[i] = pulses[i]
                    /\ \A g \in DOMAIN pulses[id] \ {f} :
                          pulses'[id][g] = pulses[id][g]]_vars


\* the parsed output of the child carries is_error
C22_StreamError == executor.stdout.json /\ executor.stdout.is_error

\* C22 as stated: execute returns only when the child exited with code 0
\* and its parsed output has is_error = false; with a non-zero exit, a
\* timeout, is_error in the output, a command that is not found or a missing
\* working directory it raises, and the pulse is then FAILED, not COMPLETED.
\* (Violated under SpecExec: execute never looks at is_error.)
C22_SuccessOnlyWhenClean ==
    /\ executor.pc = "returned"
       => /\ executor.cwd_exists /\ executor.found
          /\ ~executor.timed_out /\ executor.returncode = 0
          /\ ~C22_StreamError
    /\ pulses[1].status = "completed"
       => executor.returncode = 0 /\ ~C22_StreamError
    /\ (/\ executor.pc \in {"returned", "raised"}
        /\ \/ ~executor.cwd_exists \/ ~executor.found \/ executor.timed_out
           \/ executor.returncode # 0 \/ C22_StreamError)
       => /\ executor.pc = "raised"
          /\ pulses[1].status \in {"processing", "failed"}


\* call i of the history wrote the cooldown file of call j's key before call
\* j looked at it
C23_RecordedBefore(i, j) ==
    LET h == sentinel.history
    IN  /\ h[i].recorded_at # None
        /\ h[i].touch_no < h[j].check_no
        /\ h[j].key # <<>>
        /\ safe_key(h[i].key) = safe_key(h[j].key)

\* C23 as stated, with a backend that is configured and delivers whatever it
\* is given: of two calls with the same non-empty key and cooldown, the
\* second made after the first has returned and less than the cooldown
\* after the first was made, exactly one is delivered and the second returns
\* False; a call made a cooldown or more after the call that delivered last
\* has returned is delivered.
\* (Violated under SpecSentinel: the cooldown file is best effort.)
C23_ExactlyOneDelivery ==
    LET h == sentinel.history
    IN  \A i, j \in DOMAIN h :
           (/\ h[i].return_no < h[j].check_no
            /\ h[i].key = h[j].key /\ h[i].key # <<>>
            /\ h[i].cooldown_seconds = h[j].cooldown_seconds
            /\ \A k \in {i, j} :
                  h[k].configured /\ (h[k].invoked => h[k].delivered))
           => IF h[j].checked_at - h[i].checked_at < h[j].cooldown_seconds
              THEN h[i].delivered /\ ~h[j].delivered /\ ~h[j].result
              ELSE h[i].delivered
                   /\ h[j].checked_at - h[i].returned_at
                         >= h[j].cooldown_seconds
                   => h[j].delivered /\ h[j].result

\* C23, amended: for a non-empty key, a call that starts after an alert
\* with the same sanitized key was delivered and recorded less than
\* cooldown_seconds ago, and that can read the cooldown file, is suppressed:
\* it returns False and the backend is not called. A call with a configured
\* backend for which every recorded delivery is cooldown_seconds or more
\* old calls the backend and returns whether the backend delivered.
C23_CooldownByRecord ==
    LET h == sentinel.history
    IN  \A j \in DOMAIN h :
           /\ (/\ h[j].readable
               /\ \E i \in DOMAIN h :
                     /\ C23_RecordedBefore(i, j)
                     /\ h[j].checked_at - h[i].recorded_at
                           < h[j].cooldown_seconds)
              => ~h[j].invoked /\ ~h[j].delivered /\ ~h[j].result
           /\ (/\ h[j].configured
               /\ \A i \in DOMAIN h :
                     /\ h[i].recorded_at # None
                     /\ h[j].key # <<>>
                     /\ safe_key(h[i].key) = safe_key(h[j].key)
                     /\ h[i].touch_no < h[j].check_no
                     => h[j].checked_at - h[i].recorded_at
                           >= h[j].cooldown_seconds)
              => h[j].invoked /\ h[j].result = h[j].delivered
           /\ h[j].result => h[j].invoked /\ h[j].delivered

\* an alert was delivered and recorded, a second call with the same key one
\* second later was suppressed
C23_Witness ==
    LET h == sentinel.history
    IN  \E i, j \in DOMAIN h :
           /\ C23_RecordedBefore(i, j)
           /\ h[i].key = h[j].key
           /\ h[j].cooldown_seconds = MaxCooldown
           /\ h[j].checked_at = h[i].recorded_at + 1
           /\ h[j].readable /\ ~h[j].invoked /\ ~h[j].result

\* the cooldown file of a call with a key could not be read
C24_Unreadable(r) == r.configured /\ r.key # <<>> /\ ~r.readable

\* C24 as stated: no call of send_alert raises, and a call that met a fault
\* (no backend, a backend that raised or failed to deliver, an unreadable or
\* unwritable cooldown file) returned False.
\* (Violated under SpecSentinel: an alert that was delivered returns True
\* whatever happens to its cooldown file.)
C24_EveryFaultReturnsFalse ==
    LET h == sentinel.history
    IN  \A j \in DOMAIN h :
           /\ ~h[j].raised
           /\ (\/ ~h[j].configured
               \/ h[j].backend \in {"raised", "not sent"}
               \/ C24_Unreadable(h[j])
               \/ h[j].touch = "OSError")
              => h[j].result = FALSE

\* C24, amended: no call of send_alert raises; a call with no backend, or
\* whose backend raised or failed to deliver, returns False; a call whose
\* cooldown file could not be read or written returns whether the backend
\* delivered the alert.
C24_NeverRaises ==
    LET h == sentinel.history
    IN  \A j \in DOMAIN h :
           /\ ~h[j].raised
           /\ (~h[j].configured \/ h[j].backend \in {"raised", "not sent"})
              => h[j].result = FALSE
           /\ (C24_Unreadable(h[j]) \/ h[j].touch = "OSError")
              => h[j].result = (h[j].backend = "sent")

\* one call found no backend or a backend that raised and returned False,
\* another delivered its alert, could not write the cooldown file and
\* returned True
C24_Witness ==
    LET h == sentinel.history
    IN  \E i, j \in DOMAIN h :
           /\ h[i].backend = "raised" /\ h[i].result = FALSE
           /\ h[j].touch = "OSError" /\ h[j].result = TRUE

C25_Processed(u) ==
    /\ listener.pc = "batch" /\ listener.batch # <<>>
    /\ Head(listener.batch) = u
    /\ listener'.batch = Tail(listener.batch)

\* C25: processing an update whose message comes from another chat than the
\* authorized one makes no request to the HTTP Ingress and moves the offset
\* to that update's id plus 1; no request is ever made for such an update.
C25_ForeignChatSkipped ==
    [][\A u \in UpdateIds :
          /\ listener.updates[u].message = "present"
          /\ listener.updates[u].chat # chat_id
          => /\ u \notin listener'.posted
             /\ C25_Processed(u)
                => /\ listener'.posted = listener.posted
                   /\ listener'.last_update_id = u + 1]_vars

\* a text message of chat 99999 was skipped, nothing was posted for it and
\* the offset on disk is past it
C25_Witness ==
    \E u \in listener.skipped :
       /\ listener.updates[u].chat = "99999" /\ listener.updates[u].text
       /\ u \notin listener.posted
       /\ listener.last_update_id = u + 1
       /\ load_offset(listener.fs) = u + 1

\* C26: the offset on disk is never past an update whose processing failed.
\* (Violated under SpecBridge: the loop logs the failure, goes on with the
\* next update and saves the offset the later update left.)
C26_NotSavedPastFailure ==
    \A u \in listener.raised :
       load_offset(listener.fs) = None \/ load_offset(listener.fs) <= u

RECURSIVE C27_Largest(_)
C27_Largest(b) ==
    IF Len(b) = 1 THEN b[1]
    ELSE IF b[1] > C27_Largest(Tail(b)) THEN b[1] ELSE C27_Largest(Tail(b))

\* C27: once a polled batch has been handled, last_update_id is the largest
\* update_id of the batch plus 1.
\* (Violated under SpecBridge: it is the id of the update handled last
\* without an exception plus 1.)
C27_OffsetIsLargestPlusOne ==
    /\ listener.pc = "sleep" /\ listener.outcome = "ok"
    /\ listener.polled # <<>>
    => listener.last_update_id = C27_Largest(listener.polled) + 1

\* a getUpdates call has ended and the loop has gone on to its next await or
\* has stopped
C29_Polled == listener.pc = "poll" /\ listener'.pc # "poll"

\* a batch, possibly empty, has been handled to its end
C29_BatchDone ==
    \/ C29_Polled /\ listener'.outcome = "ok" /\ listener'.polled = <<>>
    \/ listener.pc = "batch" /\ listener'.pc = "sleep"

\* the error policy for the getUpdates outcomes in F
C29_Policy(F) ==
    /\ C29_Polled /\ listener'.outcome \in F
       => /\ listener'.error_count = listener.error_count + 1
          /\ ~listener'.fatal
             => /\ listener'.pc = "sleep"
                /\ listener'.slept = Min(2 ^ listener'.error_count, 300)
    /\ C29_BatchDone => listener'.error_count = 0
    /\ C29_Polled
       => (listener'.fatal
           <=> \/ listener'.error_count >= 10 /\ listener'.outcome \in F
               \/ listener'.outcome = "401")
    /\ listener'.fatal /\ ~listener.fatal
       => C29_Polled /\ ~listener'.running /\ listener'.pc = "stopped"

\* C29 as stated: every getUpdates call that fails (a network error, a 5xx
\* status, a 401 or 404 status, a body that is not JSON) increments
\* error_count and, unless it stops the bridge, is followed by a sleep of
\* min(2^error_count, 300) seconds; a handled batch resets error_count; the
\* bridge stops exactly when error_count reaches 10 or the status is 401.
\* (Violated under SpecBridge: a network error and a 5xx status are not
\* counted.)
C29_EveryFailureBacksOff ==
    [][C29_Policy(PollRaises \cup {"network error", "5xx"})]_vars

\* C29, amended: the same for every getUpdates call that raises (a 401 or
\* 404 status, a body that is not JSON); a call that ends with a network
\* error, a 5xx status or a timeout leaves error_count as it is and is
\* followed by a sleep of 1 second.
C29_EveryExceptionBacksOff ==
    [][/\ C29_Policy(PollRaises)
       /\ C29_Polled /\ listener'.outcome \in PollReturnsNone
          => /\ listener'.error_count = listener.error_count
             /\ listener'.slept = 1 /\ listener'.pc = "sleep"]_vars

\* the ninth error in a row was followed by a sleep of 300 seconds and the
\* tenth, a 404 status, stopped the bridge
C29_Witness ==
    /\ listener.fatal /\ listener.error_count = 10
    /\ listener.outcome = "404" /\ listener.slept = 300
    /\ ~listener.running /\ listener.pc = "stopped"

\* C30: the process exits with 1 when a fatal condition of the polling loop
\* or a startup failure stopped it, and with 0 only after a signal.
\* (Violated under SpecBridge: a polling loop that stopped on a fatal
\* condition lets start() return and the process exits with 0.)
C30_ExitCode ==
    listener.pc = "exited"
    => /\ listener.fatal \/ listener.cause \in {"config", "startup"}
          => listener.exit_code = 1
       /\ listener.exit_code = 0
          => listener.signalled /\ ~listener.fatal

\* C37: for every text message of the authorized chat that the bridge has
\* processed, the HTTP Ingress accepted a pulse or the offset, in memory and
\* on disk, is not past the update.
\* (Violated under SpecBridge: _trigger_pulse returns None, the failure is
\* logged and the offset moves on.)
C37_NoAuthorizedMessageLost ==
    \A u \in listener.posted \ listener.accepted :
       /\ listener.last_update_id = None \/ listener.last_update_id <= u
       /\ load_offset(listener.fs) = None \/ load_offset(listener.fs) <= u

\* what the file name keeps of a character of a key
C39_Kept(c) == IF c \in {"a", "1", "-", "_"} THEN c ELSE "_"

\* two keys with the same cooldown file
C39_SameFile(k1, k2) ==
    /\ Len(k1) = Len(k2)
    /\ \A n \in DOMAIN k1 : C39_Kept(k1[n]) = C39_Kept(k2[n])

\* a suppressed call j and a recorded delivery i, less than the cooldown of
\* j before it, that j could see
C39_SuppressedBy(i, j) ==
    LET h == sentinel.history
    IN  /\ h[j].configured /\ h[j].key # <<>> /\ ~h[j].invoked
        /\ h[i].recorded_at # None /\ h[i].touch_no < h[j].check_no
        /\ h[j].checked_at - h[i].recorded_at < h[j].cooldown_seconds

\* C39 as stated: a call with a key is suppressed only after a delivery with
\* that very key.
\* (Violated under SpecSentinel: the keys a/1 and a_1 share the cooldown
\* file .cooldown_a_1.)
C39_KeysIndependent ==
    LET h == sentinel.history
    IN  \A j \in DOMAIN h :
           h[j].configured /\ h[j].key # <<>> /\ ~h[j].invoked
           => \E i \in DOMAIN h :
                 C39_SuppressedBy(i, j) /\ h[i].key = h[j].key

\* C39, amended: a call with a key is suppressed only after a delivery with
\* a key that has the same sanitized form.
C39_SanitizedKeysIndependent ==
    LET h == sentinel.history
    IN  \A j \in DOMAIN h :
           h[j].configured /\ h[j].key # <<>> /\ ~h[j].invoked
           => \E i \in DOMAIN h :
                 C39_SuppressedBy(i, j) /\ C39_SameFile(h[i].key, h[j].key)

\* an alert with key a_1 was delivered and recorded, and a call with key a-1
\* that came within its cooldown and could read the files was delivered too
C39_Witness ==
    LET h == sentinel.history
    IN  \E i, j \in DOMAIN h :
           /\ h[i].key = <<"a", "_", "1">> /\ h[i].recorded_at # None
           /\ h[j].key = <<"a", "-", "1">> /\ h[j].readable
           /\ h[i].touch_no < h[j].check_no
           /\ h[j].checked_at - h[i].recorded_at < h[j].cooldown_seconds
           /\ h[j].invoked /\ h[j].delivered /\ h[j].result

\* C40: once the timeout has elapsed the child is killed; when execute goes
\* on the child has been reaped, timed_out is True and return_code is -1;
\* the call ends by raising the timed-out failure, never by returning.
C40_TimeoutKillsAndRaises ==
    /\ executor.pc = "wait" => executor.child = "killed"
    /\ executor.timed_out
       => /\ executor.child = "reaped"
          /\ return_code(executor) = 0 - 1
          /\ executor.pc \in {"exited", "raised"}
          /\ executor.pc = "raised" => executor.error = "timed out"
    /\ executor.pc = "returned"
       => ~executor.timed_out /\ executor.child = "reaped"

\* an execution timed out, its child was killed and reaped, execute raised
\* and the pulse was marked FAILED
C40_Witness ==
    /\ executor.pc = "raised" /\ executor.timed_out
    /\ executor.error = "timed out" /\ executor.child = "reaped"
    /\ pulses[1].status = "failed"

\* C38: every pulse is the parent of at most one retry pulse, and a retry
\* pulse carries its parent's retry_count plus 1.
\* (Violated under SpecStore: a second mark_failed of the same pulse inserts
\* a second retry pulse.)
C38_RetriesFormAChain ==
    \A i \in DOMAIN pulses :
       /\ Cardinality(Retries(i)) <= 1
       /\ \A r \in Retries(i) :
             pulses[r].retry_count = pulses[i].retry_count + 1

\* C36: a pulse whose execution succeeded (execute returned) is not FAILED
\* and has no retry pulse.
\* (Violated under SpecExecFault: mark_completed is called inside the try
\* block whose except branch calls mark_failed.)
C36_SuccessNeverFailed ==
    executor.pc = "returned"
    => pulses[1].status # "failed" /\ Retries(1) = {}


\* C34: every pulse that is PROCESSING has had an execution task started
\* for it, unless the scheduler stands right after the commit of its
\* mark_processing and creates the task as its next step.
\* (Violated under SpecDrain: a signal cancels the scheduler at the await
\* that ends mark_processing, after the commit and before create_task.)
C34_ProcessingHasTask ==
    \A i \in DOMAIN pulses :
       pulses[i].status = "processing"
       => \/ spawned[i] > 0
          \/ schedPc = "commit" /\ batch # <<>> /\ Head(batch) = i


\* C35: of a cancel_pulse(id) and a mark_processing(id) that run
\* concurrently on one PENDING pulse exactly one returns True, and the
\* status stays the winner's: a pulse becomes CANCELLED or PROCESSING only
\* from PENDING, so a cancelled pulse is never claimed and never executed.
\* (Violated under Spec: the call that read PENDING first commits its
\* status over the other's.)
C35_OneWinner ==
    [][\A i \in DOMAIN pulses :
          /\ pulses'[i].status # pulses[i].status
          /\ pulses'[i].status \in {"processing", "cancelled"}
          => pulses[i].status = "pending"]_vars


\* C33: parse_time_string accepts exactly the grammar, in any letter case:
\* "now", "in <N> minute[s]|hour[s]|day[s]" with N a nonnegative integer,
\* and an ISO-8601 date-time with Z or +HH:MM; what it accepts is a UTC
\* instant and everything else is a parse error.
\* (Violated under SpecTime: "IN 5 MINUTES" holds a "T" and is read as ISO,
\* int() takes a sign, rstrip takes any number of "s", and an ISO date-time
\* without offset gives a naive datetime.)
C33_upper(s) ==
    [k \in DOMAIN s |->
        IF \E u \in DOMAIN LowerChars : LowerChars[u] = s[k]
        THEN UpperChars[CHOOSE u \in DOMAIN LowerChars : LowerChars[u] = s[k]]
        ELSE s[k]]

C33_UnitWords ==
    {<<"m", "i", "n", "u", "t", "e">>, <<"m", "i", "n", "u", "t", "e", "s">>,
     <<"h", "o", "u", "r">>, <<"h", "o", "u", "r", "s">>,
     <<"d", "a", "y">>, <<"d", "a", "y", "s">>}

\* an ISO date-time with "T" and a "Z" or an offset
C33_IsIso(s) ==
    LET d == fromisoformat(replace_Z(s))
    IN  ~d.raised /\ d.aware /\ s[11] = "T"

\* the strings the grammar names, written as the grammar writes them but
\* for the case of their letters
C33_InGrammar(s) ==
    \/ lower(s) = <<"n", "o", "w">>
    \/ \E a \in Amounts, u \in C33_UnitWords :
          IsDigits(a) /\ lower(s) = <<"i", "n", " ">> \o a \o <<" ">> \o u
    \/ C33_IsIso(s)

\* the strings that are of the grammar under no reading of it: also not
\* with whitespace around or between the words, with a plus sign, or with
\* the letters of a date-time in lower case
C33_OutsideGrammar(s) ==
    LET t == strip(s)
        parts == split(lower(t))
    IN  /\ ~C33_InGrammar(t)
        /\ ~C33_IsIso(C33_upper(t))
        /\ ~(/\ Len(parts) = 3 /\ parts[1] = <<"i", "n">>
             /\ parts[3] \in C33_UnitWords
             /\ \/ IsDigits(parts[2])
                \/ parts[2][1] = "+" /\ IsDigits(Tail(parts[2])))

C33_AcceptsExactlyTheGrammar ==
    api.pc = "returned"
    => /\ C33_InGrammar(api.time_str)
          => ~api.result.raised /\ api.result.aware
       /\ C33_OutsideGrammar(api.time_str) => api.result.raised
       /\ ~api.result.raised => api.result.aware


\* C32: the aggregate session_id is that of the first system/init event
\* that has one, whatever comes later; without such an event it is that of
\* a result event that has one, and without that there is none.
\* (Violated under SpecStream: a second system/init event with a session_id
\* replaces the first.)
C32_Inits ==
    {k \in DOMAIN executor.parser.events :
        LET e == executor.parser.events[k]
        IN  e.type = "system" /\ e.subtype = "init" /\ e.session_id # NoSession}

C32_Results ==
    {k \in DOMAIN executor.parser.events :
        LET e == executor.parser.events[k]
        IN  e.type = "result" /\ e.session_id # NoSession}

C32_First(S) == CHOOSE k \in S : \A j \in S : k <= j

C32_FirstInitWins ==
    executor.pc = "parsing"
    => LET p == executor.parser
       IN  IF C32_Inits # {}
           THEN p.session_id = p.events[C32_First(C32_Inits)].session_id
           ELSE IF C32_Results # {}
           THEN p.session_id \in {p.events[k].session_id : k \in C32_Results}
           ELSE p.session_id = NoSession


\* C31: a request to POST /api/pulse/schedule that does not carry the
\* configured bearer token is rejected, with 401 when the header is missing
\* or is no bearer header, else 500 when no token is configured, else 403,
\* and it creates or changes no pulse; a step that changes the pulses table
\* answers a request that carries the configured token.
C31_HasToken ==
    /\ api.pulse_api_token # NoToken
    /\ api.authorization.scheme = "Bearer"
    /\ api.authorization.credentials = api.pulse_api_token

C31_OnlyTheTokenSchedules ==
    [][/\ pulses' # pulses => api.pc = "received" /\ C31_HasToken
       /\ (api.pc = "received" /\ api'.pc = "responded" /\ ~C31_HasToken)
          => /\ pulses' = pulses
             /\ api'.pulse_id = None
             /\ api'.status_code =
                  IF \/ api.authorization.scheme # "Bearer"
                     \/ api.authorization.credentials = ""
                  THEN 401
                  ELSE IF api.pulse_api_token = NoToken THEN 500 ELSE 403]_vars

\* a request with a wrong token was answered 403 after a request with the
\* token had scheduled a pulse, which is the only one
C31_Witness ==
    /\ api.pc = "responded" /\ api.status_code = 403
    /\ api.authorization.credentials = "wrong"
    /\ Len(pulses) = 1 /\ pulses[1].created_by = "external"

====
